---- MODULE Spec2Model ----
(***************************************************************************)
(* Verification model of the actor coordination and event-sourced memory  *)
(* subsystem: EventStore (events/event_store.py), MemoryActor              *)
(* (actors/memory_actor.py) and UserSessionActor                           *)
(* (actors/user_session_actor.py).                                         *)
(*                                                                         *)
(* All code runs on one asyncio event loop: a step of the model is the     *)
(* code a task runs between two suspension points (await).                 *)
(***************************************************************************)
EXTENDS Integers, Sequences, FiniteSets, TLC

(***************************************************************************)
(* Bounds of the model.                                                    *)
(***************************************************************************)
NumSavers == 2      \* concurrent callers of EventStore.save_event
MaxEvents == 3      \* events handed to save_event in one run
NumCallers == 2     \* concurrent callers of MemoryActor.handle_message
NumUsers == 2       \* user ids
MaxRows == 3        \* store calls made in one run
NumContents == 2    \* distinct message contents; content c has length c
NumSessions == 1    \* concurrent calls of handle_user_message
MaxMessages == 2    \* calls of UserSessionActor.handle_user_message in one run
NumTexts == 3       \* distinct user texts and generated replies; text t has length t
NumConcurrentTexts == 1  \* texts and replies of concurrent calls
NumConcurrentUsers == 1  \* users of concurrent calls
MaxFaults == 2      \* failures of collaborators in one run of the coordinator
MaxCleanupRows == 4 \* rows ever inserted in a run of stores and cleanup calls
NumCleanupContents == 1 \* distinct contents stored in such a run
NumFieldValues == 2   \* distinct values of a field of a message's data
NumEventUsers == 1    \* user ids 0..NumEventUsers of the events saved
MaxEventRows == 3     \* events saved and flushed in one run
NumContextContents == 4 \* distinct contents in a run of stores and context requests
MaxLimit == 3
NumMetaKeys == 3
MaxValueLen == 4       \* largest limit of a context request

(***************************************************************************)
(* Configuration (config/events.py), scaled down so that the thresholds    *)
(* are crossed within the bounds.                                          *)
(***************************************************************************)
batch_size == 2                       \* event_batch_size (100 in the source)
max_event_size_bytes == 2             \* max_event_size_bytes (64000)
event_validation_enabled == TRUE
event_compression_enabled == TRUE

(***************************************************************************)
(* Configuration (config/memory.py), scaled down likewise.                 *)
(***************************************************************************)
stm_limit == 2                        \* stm_limit (25)
cleanup_batch_size == 1               \* cleanup_batch_size (10)
retry_attempts == 2                   \* retry_attempts (3)
context_max_length == 3               \* context_max_length (5000)

(***************************************************************************)
(* Configuration of the coordinator (config/coordination.py,               *)
(* config/events.py and literals of actors/user_session_actor.py), scaled. *)
(***************************************************************************)
memory_attempts == 2                  \* retry_patterns["memory"]["attempts"] (3)
user_message_max_text_length == 1     \* user_message max_text_length (4096)
bot_response_max_text_length == 2     \* bot_response max_text_length (8192)
context_request_limit == 1            \* "limit" of the context request (10)
response_time_window == 1             \* samples kept in avg_response_time (100)
event_metadata_max_size == 22           \* config event_metadata_max_size (1024)
stream_fetch_limit == 2               \* default limit of get_events_by_stream (100)

VARIABLES
    \* ---- EventStore ----
    event_buffer,       \* EventStore._event_buffer
    buffer_lock,        \* task owning EventStore._buffer_lock, NoTask when free
    lock_waiters,       \* tasks queued on _buffer_lock, in arrival order
    es_pc,              \* position of every task that uses the event store
    cur_event,          \* the event argument of a running save_event call
    events_to_save,     \* local events_to_save of a running _flush_buffer
    events_table,       \* rows of the events table, in insertion order
    cancel_requested,   \* _flush_task.cancel() was called and not yet delivered
    next_event,         \* next event handed to save_event
    accepted,           \* events appended to the buffer by save_event, in order
    save_result,        \* return value of the last save_event of each saver
    insert_failed,      \* some db.execute_many call has raised
    \* ---- MemoryActor ----
    stm_buffer,         \* rows of table stm_buffer, ordered by created_at
    next_id,            \* next value of the id sequence of stm_buffer
    inserted,           \* per user, every row ever inserted, in order
    cleanup_tasks,      \* MemoryActor._cleanup_tasks: user -> task, 0 if absent
    ctask,              \* the cleanup tasks created so far
    m_pc,               \* position of every caller of handle_message
    m_args,             \* arguments of the running call of each caller
    m_attempt,          \* loop variable attempt of _store_user_message
    m_result,           \* result of the last call of each caller
    overlapped,         \* users for whom a store call began during another call
    \* ---- UserSessionActor ----
    coordination_metrics,   \* UserSessionActor._coordination_metrics
    flow,               \* locals and position of every handle_user_message call
    tally,              \* replies and fallbacks returned, timeout events saved
    faults,             \* failures of collaborators so far in a coordinator run
    \* ---- message_types ----
    memory_message,     \* the last call of create_memory_message and its outcome
    \* ---- EventStore, storage format ----
    saved_events,       \* the events saved and flushed, in order
    event_rows,         \* rows of the events table as _flush_buffer writes them
    fetched,            \* the last call of get_events_by_stream, its result and
                        \* the number of events saved before it
    \* ---- BaseActor life cycle of the memory actor ----
    is_running,         \* BaseActor.is_running (is_initialized has the same value)
    shut_pc,            \* position of the caller of shutdown()
    gathered,           \* cleanup tasks awaited by the gather of _graceful_shutdown
    cancelled_tasks,    \* cleanup tasks that received a CancelledError
    \* ---- BaseEvent metadata ----
    metadata,           \* BaseEvent.metadata of the event under construction
    meta_outcome        \* how the last constructor or add_metadata call ended

es_vars == <<event_buffer, buffer_lock, lock_waiters, es_pc, cur_event,
             events_to_save, events_table, cancel_requested, next_event,
             accepted, save_result, insert_failed>>

mem_vars == <<stm_buffer, next_id, inserted, cleanup_tasks, ctask, m_pc,
              m_args, m_attempt, m_result, overlapped>>

session_vars == <<coordination_metrics, flow, tally>>

coord_vars == <<session_vars, faults>>

msg_vars == <<memory_message>>

row_vars == <<saved_events, event_rows, fetched>>

life_vars == <<is_running, shut_pc, gathered, cancelled_tasks>>

meta_vars == <<metadata, meta_outcome>>

aux_vars == <<msg_vars, row_vars, life_vars, meta_vars>>

vars == <<es_vars, mem_vars, coord_vars, aux_vars>>

(***************************************************************************)
(* Helpers on sequences.                                                   *)
(***************************************************************************)
InSeq(x, s) == \E i \in 1..Len(s) : s[i] = x

RemoveFrom(s, x) == SelectSeq(s, LAMBDA y : y # x)

(***************************************************************************)
(* EventStore                                                              *)
(***************************************************************************)
Savers == 1..NumSavers
FlusherId == NumSavers + 1      \* the task running _periodic_flush
ShutId == NumSavers + 2         \* the caller of shutdown()
DirectId == NumSavers + 3       \* a caller of _flush_buffer() that holds no lock
ESTasks == 1..(NumSavers + 3)
NoTask == 0

\* len of the serialized event; events 1..MaxEvents have sizes 1..MaxEvents
EventSize(e) == e

\* BaseEvent.validate_event_size: TRUE when it raises ValueError
validate_event_size_raises(e) ==
    IF ~event_validation_enabled
        THEN FALSE
        ELSE IF EventSize(e) > max_event_size_bytes
                 THEN ~event_compression_enabled
                 ELSE FALSE

\* asyncio.Lock.acquire: taken at once when free, else the task queues
Acquire(t) ==
    IF buffer_lock = NoTask
        THEN buffer_lock' = t /\ UNCHANGED lock_waiters
        ELSE lock_waiters' = Append(lock_waiters, t) /\ UNCHANGED buffer_lock

\* asyncio.Lock.release: the first waiter is woken and owns the lock next
Release ==
    IF lock_waiters = <<>>
        THEN buffer_lock' = NoTask /\ UNCHANGED lock_waiters
        ELSE buffer_lock' = Head(lock_waiters) /\ lock_waiters' = Tail(lock_waiters)

\* the task's pending acquire() has returned
Granted(t) == buffer_lock = t /\ ~InSeq(t, lock_waiters)

\* where a task continues once the _flush_buffer it called has returned
AfterFlush(t) ==
    IF t = FlusherId THEN "sleep" ELSE IF t = ShutId THEN "done" ELSE "idle"

ESInit ==
    /\ event_buffer = <<>>
    /\ buffer_lock = NoTask
    /\ lock_waiters = <<>>
    /\ es_pc = [t \in ESTasks |-> IF t = FlusherId THEN "none" ELSE "idle"]
    /\ cur_event = [t \in Savers |-> 0]
    /\ events_to_save = [t \in ESTasks |-> <<>>]
    /\ events_table = <<>>
    /\ cancel_requested = FALSE
    /\ next_event = 1
    /\ accepted = <<>>
    /\ save_result = [t \in Savers |-> "none"]
    /\ insert_failed = FALSE

\* EventStore.initialize: create the periodic flush task
Initialize ==
    /\ es_pc[FlusherId] = "none"
    /\ es_pc[ShutId] = "idle"
    /\ es_pc' = [es_pc EXCEPT ![FlusherId] = "sleep"]
    /\ UNCHANGED <<event_buffer, buffer_lock, lock_waiters, cur_event,
                   events_to_save, events_table, cancel_requested, next_event,
                   accepted, save_result, insert_failed>>

\* save_event, lines 32-37: validate, then ask for the buffer lock
SaveEvent(s) ==
    /\ es_pc[s] = "idle"
    /\ next_event <= MaxEvents
    /\ next_event' = next_event + 1
    /\ IF validate_event_size_raises(next_event)
           THEN /\ save_result' = [save_result EXCEPT ![s] = "false"]
                /\ UNCHANGED <<buffer_lock, lock_waiters, es_pc, cur_event>>
           ELSE /\ save_result' = [save_result EXCEPT ![s] = "none"]
                /\ cur_event' = [cur_event EXCEPT ![s] = next_event]
                /\ es_pc' = [es_pc EXCEPT ![s] = "lock"]
                /\ Acquire(s)
    /\ UNCHANGED <<event_buffer, events_to_save, events_table, cancel_requested,
                   accepted, insert_failed>>

\* the threshold test with every event above the batch size only
BufferFullBeyondBatch(buf) == Len(buf) > batch_size

\* save_event, line 41: the buffer has reached the batch size
BufferFull(buf) == Len(buf) >= batch_size

\* save_event, lines 38-44, with the part of _flush_buffer before its await
SaveLocked(s) ==
    /\ es_pc[s] = "lock"
    /\ Granted(s)
    /\ accepted' = Append(accepted, cur_event[s])
    /\ LET buf == Append(event_buffer, cur_event[s]) IN
           IF BufferFull(buf)
               THEN /\ events_to_save' = [events_to_save EXCEPT ![s] = buf]
                    /\ event_buffer' = <<>>
                    /\ es_pc' = [es_pc EXCEPT ![s] = "insert"]
                    /\ UNCHANGED <<buffer_lock, lock_waiters, save_result>>
               ELSE /\ event_buffer' = buf
                    /\ Release
                    /\ es_pc' = [es_pc EXCEPT ![s] = "idle"]
                    /\ save_result' = [save_result EXCEPT ![s] = "true"]
                    /\ UNCHANGED events_to_save
    /\ UNCHANGED <<cur_event, events_table, cancel_requested, next_event,
                   insert_failed>>

\* _periodic_flush, lines 89-90: the sleep is over, ask for the buffer lock
PeriodicTick ==
    /\ es_pc[FlusherId] = "sleep"
    /\ ~cancel_requested
    /\ es_pc' = [es_pc EXCEPT ![FlusherId] = "lock"]
    /\ Acquire(FlusherId)
    /\ UNCHANGED <<event_buffer, cur_event, events_to_save, events_table,
                   cancel_requested, next_event, accepted, save_result,
                   insert_failed>>

\* _periodic_flush, lines 91-92, and shutdown, line 188: under the lock, call
\* _flush_buffer, which returns at once on an empty buffer (lines 52-56)
FlushLocked(t) ==
    /\ t \in {FlusherId, ShutId}
    /\ es_pc[t] = "lock"
    /\ Granted(t)
    /\ t = FlusherId => ~cancel_requested
    /\ IF event_buffer = <<>>
           THEN /\ Release
                /\ es_pc' = [es_pc EXCEPT ![t] = AfterFlush(t)]
                /\ UNCHANGED <<event_buffer, events_to_save>>
           ELSE /\ events_to_save' = [events_to_save EXCEPT ![t] = event_buffer]
                /\ event_buffer' = <<>>
                /\ es_pc' = [es_pc EXCEPT ![t] = "insert"]
                /\ UNCHANGED <<buffer_lock, lock_waiters>>
    /\ UNCHANGED <<cur_event, events_table, cancel_requested, next_event,
                   accepted, save_result, insert_failed>>

\* a direct call of _flush_buffer(), the caller holding no lock
\* (tests/test_event_flow.py); a call on an empty buffer changes nothing
DirectFlush ==
    /\ es_pc[DirectId] = "idle"
    /\ event_buffer # <<>>
    /\ events_to_save' = [events_to_save EXCEPT ![DirectId] = event_buffer]
    /\ event_buffer' = <<>>
    /\ es_pc' = [es_pc EXCEPT ![DirectId] = "insert"]
    /\ UNCHANGED <<buffer_lock, lock_waiters, cur_event, events_table,
                   cancel_requested, next_event, accepted, save_result,
                   insert_failed>>

\* an insert that writes the batch last event first
InsertOkReversed(t) ==
    /\ es_pc[t] = "insert"
    /\ t = FlusherId => ~cancel_requested
    /\ events_table' = events_table \o
           [k \in 1..Len(events_to_save[t]) |->
                events_to_save[t][Len(events_to_save[t]) + 1 - k]]
    /\ events_to_save' = [events_to_save EXCEPT ![t] = <<>>]
    /\ es_pc' = [es_pc EXCEPT ![t] = AfterFlush(t)]
    /\ IF t = DirectId
           THEN UNCHANGED <<buffer_lock, lock_waiters>>
           ELSE Release
    /\ save_result' = IF t \in Savers
                          THEN [save_result EXCEPT ![t] = "true"]
                          ELSE save_result
    /\ UNCHANGED <<event_buffer, cur_event, cancel_requested, next_event,
                   accepted, insert_failed>>

\* _flush_buffer, lines 73-78: execute_many succeeded; the caller goes on
InsertOk(t) ==
    /\ es_pc[t] = "insert"
    /\ t = FlusherId => ~cancel_requested
    /\ events_table' = events_table \o events_to_save[t]
    /\ events_to_save' = [events_to_save EXCEPT ![t] = <<>>]
    /\ es_pc' = [es_pc EXCEPT ![t] = AfterFlush(t)]
    /\ IF t = DirectId
           THEN UNCHANGED <<buffer_lock, lock_waiters>>
           ELSE Release
    /\ save_result' = IF t \in Savers
                          THEN [save_result EXCEPT ![t] = "true"]
                          ELSE save_result
    /\ UNCHANGED <<event_buffer, cur_event, cancel_requested, next_event,
                   accepted, insert_failed>>

\* _flush_buffer, lines 80-83: execute_many raised; the handler asks for
\* _buffer_lock
InsertFail(t) ==
    /\ es_pc[t] = "insert"
    /\ t = FlusherId => ~cancel_requested
    /\ insert_failed' = TRUE
    /\ es_pc' = [es_pc EXCEPT ![t] = "rebuffer"]
    /\ Acquire(t)
    /\ UNCHANGED <<event_buffer, cur_event, events_to_save, events_table,
                   cancel_requested, next_event, accepted, save_result>>

\* _flush_buffer, line 84: the handler owns the lock and puts the batch back
Rebuffer(t) ==
    /\ es_pc[t] = "rebuffer"
    /\ Granted(t)
    /\ event_buffer' = events_to_save[t] \o event_buffer
    /\ events_to_save' = [events_to_save EXCEPT ![t] = <<>>]
    /\ Release
    /\ es_pc' = [es_pc EXCEPT ![t] = AfterFlush(t)]
    /\ save_result' = IF t \in Savers
                          THEN [save_result EXCEPT ![t] = "true"]
                          ELSE save_result
    /\ UNCHANGED <<cur_event, events_table, cancel_requested, next_event,
                   accepted, insert_failed>>

\* shutdown, lines 183-187: cancel the flush task, ask for the buffer lock
Shutdown ==
    /\ es_pc[ShutId] = "idle"
    /\ cancel_requested' =
           (es_pc[FlusherId] \in {"sleep", "lock", "insert", "rebuffer"})
    /\ es_pc' = [es_pc EXCEPT ![ShutId] = "lock"]
    /\ Acquire(ShutId)
    /\ UNCHANGED <<event_buffer, cur_event, events_to_save, events_table,
                   next_event, accepted, save_result, insert_failed>>

\* CancelledError is raised in the flush task at the await it is suspended
\* on. It is not an Exception: no handler of _flush_buffer catches it, the
\* async with of _periodic_flush releases the lock, events_to_save is gone.
\* The insert it interrupts has reached the table or not.
FlushTaskCancelled ==
    /\ cancel_requested
    /\ es_pc[FlusherId] \in {"sleep", "lock", "insert", "rebuffer"}
    /\ cancel_requested' = FALSE
    /\ es_pc' = [es_pc EXCEPT ![FlusherId] = "cancelled"]
    /\ events_to_save' = [events_to_save EXCEPT ![FlusherId] = <<>>]
    /\ \E landed \in BOOLEAN :
           events_table' =
               IF es_pc[FlusherId] = "insert" /\ landed
                   THEN events_table \o events_to_save[FlusherId]
                   ELSE events_table
    /\ LET waiting == RemoveFrom(lock_waiters, FlusherId) IN
           IF buffer_lock = FlusherId
               THEN IF waiting = <<>>
                        THEN buffer_lock' = NoTask /\ lock_waiters' = <<>>
                        ELSE /\ buffer_lock' = Head(waiting)
                             /\ lock_waiters' = Tail(waiting)
               ELSE lock_waiters' = waiting /\ UNCHANGED buffer_lock
    /\ UNCHANGED <<event_buffer, cur_event, next_event, accepted, save_result,
                   insert_failed>>

ESNext ==
    \/ Initialize /\ UNCHANGED <<aux_vars, mem_vars, coord_vars>>
    \/ (\E s \in Savers : SaveEvent(s)) /\ UNCHANGED <<aux_vars, mem_vars, coord_vars>>
    \/ (\E s \in Savers : SaveLocked(s)) /\ UNCHANGED <<aux_vars, mem_vars, coord_vars>>
    \/ PeriodicTick /\ UNCHANGED <<aux_vars, mem_vars, coord_vars>>
    \/ (\E t \in ESTasks : FlushLocked(t)) /\ UNCHANGED <<aux_vars, mem_vars, coord_vars>>
    \/ DirectFlush /\ UNCHANGED <<aux_vars, mem_vars, coord_vars>>
    \/ (\E t \in ESTasks : InsertOk(t)) /\ UNCHANGED <<aux_vars, mem_vars, coord_vars>>
    \/ (\E t \in ESTasks : InsertFail(t)) /\ UNCHANGED <<aux_vars, mem_vars, coord_vars>>
    \/ (\E t \in ESTasks : Rebuffer(t)) /\ UNCHANGED <<aux_vars, mem_vars, coord_vars>>
    \/ Shutdown /\ UNCHANGED <<aux_vars, mem_vars, coord_vars>>
    \/ FlushTaskCancelled /\ UNCHANGED <<aux_vars, mem_vars, coord_vars>>

\* the event store with concurrent save_event calls and the periodic flush,
\* every insert succeeding
ESOkNext ==
    \/ Initialize /\ UNCHANGED <<aux_vars, mem_vars, coord_vars>>
    \/ (\E s \in Savers : SaveEvent(s)) /\ UNCHANGED <<aux_vars, mem_vars, coord_vars>>
    \/ (\E s \in Savers : SaveLocked(s)) /\ UNCHANGED <<aux_vars, mem_vars, coord_vars>>
    \/ PeriodicTick /\ UNCHANGED <<aux_vars, mem_vars, coord_vars>>
    \/ FlushLocked(FlusherId) /\ UNCHANGED <<aux_vars, mem_vars, coord_vars>>
    \/ (\E t \in Savers \cup {FlusherId} : InsertOk(t))
           /\ UNCHANGED <<aux_vars, mem_vars, coord_vars>>

(***************************************************************************)
(* MemoryActor                                                             *)
(***************************************************************************)
Callers == 1..NumCallers
Users == 1..NumUsers
Contents == 1..NumContents

\* len(msg['content'])
ContentLen(c) == c

Min(a, b) == IF a < b THEN a ELSE b

Reverse(s) == [i \in 1..Len(s) |-> s[Len(s) - i + 1]]

\* SELECT ... WHERE user_id = $1 ORDER BY created_at ASC
UserRows(u) == SelectSeq(stm_buffer, LAMBDA r : r.user_id = u)

\* SELECT COUNT(*) FROM stm_buffer WHERE user_id = $1
CountRows(u) == Len(UserRows(u))

\* SELECT id ... WHERE user_id = $1 ORDER BY created_at ASC LIMIT $2
OldestIds(u, n) == {UserRows(u)[i].id : i \in 1..Min(n, CountRows(u))}

\* DELETE FROM stm_buffer WHERE id IN (the n oldest rows of the user)
DeleteOldest(u, n) == SelectSeq(stm_buffer, LAMBDA r : r.id \notin OldestIds(u, n))

\* SELECT ... WHERE user_id = $1 ORDER BY created_at DESC LIMIT $2
FetchRecent(u, limit) ==
    [i \in 1..Min(limit, CountRows(u)) |-> UserRows(u)[CountRows(u) - i + 1]]

\* a context that takes in the first message that exceeds the length
RECURSIVE ContextPrefixIncludesExceeding(_, _, _)
ContextPrefixIncludesExceeding(msgs, i, total_length) ==
    IF i > Len(msgs)
        THEN [count |-> i - 1, total_length |-> total_length]
        ELSE IF total_length > context_max_length
                 THEN [count |-> i - 1, total_length |-> total_length]
                 ELSE ContextPrefixIncludesExceeding(
                          msgs, i + 1, total_length + ContentLen(msgs[i].content))

\* _get_conversation_context, lines 168-184: how many messages of msgs,
\* taken from the first, fit the context length, and their summed length
RECURSIVE ContextPrefix(_, _, _)
ContextPrefix(msgs, i, total_length) ==
    IF i > Len(msgs)
        THEN [count |-> i - 1, total_length |-> total_length]
        ELSE IF total_length + ContentLen(msgs[i].content) > context_max_length
                 THEN [count |-> i - 1, total_length |-> total_length]
                 ELSE ContextPrefix(msgs, i + 1,
                                    total_length + ContentLen(msgs[i].content))

\* _get_conversation_context, lines 156-198
get_conversation_context(u, limit) ==
    LET msgs == Reverse(FetchRecent(u, limit))
        fit == ContextPrefix(msgs, 1, 0)
    IN  [success |-> TRUE, messages |-> SubSeq(msgs, 1, fit.count),
         count |-> fit.count, total_length |-> fit.total_length,
         deleted_count |-> 0, remaining_count |-> 0]

NoResult ==
    [success |-> FALSE, messages |-> <<>>, count |-> 0, total_length |-> 0,
     deleted_count |-> 0, remaining_count |-> 0]

StoreResult(ok) == [NoResult EXCEPT !.success = ok]

\* the arguments and the local variables of a call; count and excess are the
\* locals of _cleanup_old_messages
NoArgs ==
    [op |-> "none", user_id |-> 0, content |-> 0, limit |-> 0, req |-> 0,
     count |-> 0, excess |-> 0]

NewRow(u, role, content) ==
    [id |-> next_id, user_id |-> u, role |-> role, content |-> content]

\* store calls that have not yet finished their insert
StoresInFlight == Cardinality({c \in Callers : m_pc[c] = "insert"})

MemInit ==
    /\ stm_buffer = <<>>
    /\ next_id = 1
    /\ inserted = [u \in Users |-> <<>>]
    /\ cleanup_tasks = [u \in Users |-> 0]
    /\ ctask = <<>>
    /\ m_pc = [c \in Callers |-> "idle"]
    /\ m_args = [c \in Callers |-> NoArgs]
    /\ m_attempt = [c \in Callers |-> 0]
    /\ m_result = [c \in Callers |-> NoResult]
    /\ overlapped = {}

\* handle_message dispatching store_user_message or store_bot_response:
\* the call runs up to the await of the INSERT
StoreCall(c, op, u, content, req) ==
    /\ m_pc[c] = "idle"
    /\ m_pc' = [m_pc EXCEPT ![c] = "insert"]
    /\ m_args' = [m_args EXCEPT ![c] =
                      [NoArgs EXCEPT !.op = op, !.user_id = u, !.content = content,
                                     !.req = req]]
    /\ m_attempt' = [m_attempt EXCEPT ![c] = 0]
    /\ m_result' = [m_result EXCEPT ![c] = NoResult]
    /\ overlapped' = IF \E d \in Callers : m_pc[d] # "idle" /\ m_args[d].user_id = u
                         THEN overlapped \cup {u}
                         ELSE overlapped
    /\ UNCHANGED <<stm_buffer, next_id, inserted, cleanup_tasks, ctask>>

\* _store_user_message, lines 90-97, and _check_and_cleanup, lines 251-252:
\* the INSERT returned; with a cleanup task registered for the user the call
\* returns, else it awaits the COUNT of _check_and_cleanup
StoreUserInserted(c) ==
    /\ m_pc[c] = "insert"
    /\ m_args[c].op = "store_user_message"
    /\ LET u == m_args[c].user_id
           row == NewRow(u, "user", m_args[c].content)
       IN  /\ stm_buffer' = Append(stm_buffer, row)
           /\ inserted' = [inserted EXCEPT ![u] =
                               Append(@, [row |-> row, req |-> m_args[c].req])]
           /\ next_id' = next_id + 1
           /\ IF cleanup_tasks[u] # 0
                  THEN /\ m_pc' = [m_pc EXCEPT ![c] = "idle"]
                       /\ m_result' = [m_result EXCEPT ![c] = StoreResult(TRUE)]
                       /\ m_args' = [m_args EXCEPT ![c] = NoArgs]
                       /\ m_attempt' = [m_attempt EXCEPT ![c] = 0]
                  ELSE /\ m_pc' = [m_pc EXCEPT ![c] = "check"]
                       /\ UNCHANGED <<m_result, m_args, m_attempt>>
    /\ UNCHANGED overlapped
    /\ UNCHANGED <<cleanup_tasks, ctask>>

\* _store_user_message, lines 112-120: the INSERT raised; sleep and retry
\* while attempts remain, else the error is caught at line 118
StoreUserInsertFailed(c) ==
    /\ m_pc[c] = "insert"
    /\ m_args[c].op = "store_user_message"
    /\ IF m_attempt[c] < retry_attempts - 1
           THEN /\ m_attempt' = [m_attempt EXCEPT ![c] = @ + 1]
                /\ UNCHANGED <<m_pc, m_result, m_args>>
           ELSE /\ m_pc' = [m_pc EXCEPT ![c] = "idle"]
                /\ m_result' = [m_result EXCEPT ![c] = StoreResult(FALSE)]
                /\ m_args' = [m_args EXCEPT ![c] = NoArgs]
                /\ m_attempt' = [m_attempt EXCEPT ![c] = 0]
    /\ UNCHANGED overlapped
    /\ UNCHANGED <<stm_buffer, next_id, inserted, cleanup_tasks, ctask>>

\* a cleanup check whose failed COUNT reaches the retry loop of the store
StoreUserCheckedRetries(c, count_ok) ==
    /\ m_pc[c] = "check"
    /\ IF count_ok \/ m_attempt[c] >= retry_attempts - 1
           THEN /\ m_pc' = [m_pc EXCEPT ![c] = "idle"]
                /\ m_result' = [m_result EXCEPT ![c] = StoreResult(count_ok)]
                /\ m_args' = [m_args EXCEPT ![c] = NoArgs]
                /\ m_attempt' = [m_attempt EXCEPT ![c] = 0]
           ELSE /\ m_pc' = [m_pc EXCEPT ![c] = "insert"]
                /\ m_attempt' = [m_attempt EXCEPT ![c] = @ + 1]
                /\ UNCHANGED <<m_result, m_args>>
    /\ UNCHANGED <<stm_buffer, next_id, inserted, cleanup_tasks, ctask, overlapped>>

\* _check_and_cleanup, lines 255-273, and _store_user_message, lines 99-110:
\* the COUNT returned (or raised, which is logged); above the limit a
\* cleanup task is created and registered; the store call returns success
StoreUserChecked(c, count_ok) ==
    /\ m_pc[c] = "check"
    /\ LET u == m_args[c].user_id IN
               IF count_ok /\ CountRows(u) > stm_limit
                   THEN /\ ctask' = Append(ctask, [user_id |-> u, pc |-> "count",
                                                   excess |-> 0, orphan |-> FALSE])
                        /\ cleanup_tasks' = [cleanup_tasks EXCEPT ![u] = Len(ctask) + 1]
                   ELSE UNCHANGED <<ctask, cleanup_tasks>>
    /\ m_pc' = [m_pc EXCEPT ![c] = "idle"]
    /\ m_result' = [m_result EXCEPT ![c] = StoreResult(TRUE)]
    /\ m_args' = [m_args EXCEPT ![c] = NoArgs]
    /\ m_attempt' = [m_attempt EXCEPT ![c] = 0]
    /\ UNCHANGED overlapped
    /\ UNCHANGED <<stm_buffer, next_id, inserted>>

\* a store of the reply that goes on to the cleanup check after its INSERT
StoreBotFinishedChecks(c, ok) ==
    /\ m_pc[c] = "insert"
    /\ m_args[c].op = "store_bot_response"
    /\ LET u == m_args[c].user_id
           row == NewRow(u, "assistant", m_args[c].content)
       IN  IF ok
               THEN /\ stm_buffer' = Append(stm_buffer, row)
                    /\ inserted' = [inserted EXCEPT ![u] =
                                        Append(@, [row |-> row, req |-> m_args[c].req])]
                    /\ next_id' = next_id + 1
                    /\ m_pc' = [m_pc EXCEPT ![c] = "check"]
                    /\ UNCHANGED <<m_result, m_args>>
               ELSE /\ m_pc' = [m_pc EXCEPT ![c] = "idle"]
                    /\ m_result' = [m_result EXCEPT ![c] = StoreResult(FALSE)]
                    /\ m_args' = [m_args EXCEPT ![c] = NoArgs]
                    /\ UNCHANGED <<stm_buffer, inserted, next_id>>
    /\ UNCHANGED <<cleanup_tasks, ctask, m_attempt, overlapped>>

\* _store_bot_response, lines 128-144: one INSERT, no retry, no cleanup check
StoreBotFinished(c, ok) ==
    /\ m_pc[c] = "insert"
    /\ m_args[c].op = "store_bot_response"
    /\     LET u == m_args[c].user_id
               row == NewRow(u, "assistant", m_args[c].content)
           IN  /\ stm_buffer' = IF ok THEN Append(stm_buffer, row) ELSE stm_buffer
               /\ inserted' =
                      IF ok THEN [inserted EXCEPT ![u] =
                                      Append(@, [row |-> row, req |-> m_args[c].req])]
                            ELSE inserted
               /\ next_id' = IF ok THEN next_id + 1 ELSE next_id
               /\ m_result' = [m_result EXCEPT ![c] = StoreResult(ok)]
    /\ m_pc' = [m_pc EXCEPT ![c] = "idle"]
    /\ m_args' = [m_args EXCEPT ![c] = NoArgs]
    /\ UNCHANGED overlapped
    /\ UNCHANGED <<cleanup_tasks, ctask, m_attempt>>

\* handle_message dispatching get_conversation_context: up to the SELECT
ContextCall(c, u, limit, req) ==
    /\ m_pc[c] = "idle"
    /\ m_pc' = [m_pc EXCEPT ![c] = "fetch"]
    /\ m_args' = [m_args EXCEPT ![c] =
                      [NoArgs EXCEPT !.op = "get_conversation_context",
                                     !.user_id = u, !.limit = limit, !.req = req]]
    /\ m_result' = [m_result EXCEPT ![c] = NoResult]
    /\ UNCHANGED overlapped
    /\ UNCHANGED <<stm_buffer, next_id, inserted, cleanup_tasks, ctask,
                   m_attempt>>

\* _get_conversation_context, lines 156-202: the SELECT returned or raised
ContextFetched(c, ok) ==
    /\ m_pc[c] = "fetch"
    /\     m_result' = [m_result EXCEPT ![c] =
                            IF ok THEN get_conversation_context(m_args[c].user_id,
                                                                m_args[c].limit)
                                  ELSE NoResult]
    /\ m_pc' = [m_pc EXCEPT ![c] = "idle"]
    /\ m_args' = [m_args EXCEPT ![c] = NoArgs]
    /\ UNCHANGED overlapped
    /\ UNCHANGED <<stm_buffer, next_id, inserted, cleanup_tasks, ctask, m_attempt>>

\* _cleanup_old_messages, lines 209-217 and 238-246, run by a cleanup task:
\* the COUNT returned or raised
CleanupCounted(k, ok) ==
    /\ k \in 1..Len(ctask)
    /\ ctask[k].pc = "count"
    /\     LET count == CountRows(ctask[k].user_id) IN
               ctask' = [ctask EXCEPT ![k] =
                            IF ok /\ count > stm_limit
                                THEN [@ EXCEPT !.pc = "delete",
                                               !.excess = count - stm_limit]
                                ELSE [@ EXCEPT !.pc = "finished"]]
    /\ UNCHANGED overlapped
    /\ UNCHANGED <<stm_buffer, next_id, inserted, cleanup_tasks, m_pc, m_args,
                   m_attempt, m_result>>

\* _cleanup_old_messages, lines 218-236: the DELETE of the oldest
\* excess + cleanup_batch_size rows returned or raised
CleanupDeleted(k, ok) ==
    /\ k \in 1..Len(ctask)
    /\ ctask[k].pc = "delete"
    /\     stm_buffer' = IF ok THEN DeleteOldest(ctask[k].user_id,
                                                 ctask[k].excess + cleanup_batch_size)
                               ELSE stm_buffer
    /\ ctask' = [ctask EXCEPT ![k] = [@ EXCEPT !.pc = "finished", !.excess = 0]]
    /\ UNCHANGED overlapped
    /\ UNCHANGED <<next_id, inserted, cleanup_tasks, m_pc, m_args, m_attempt,
                   m_result>>

\* _check_and_cleanup, lines 268-270: the done callback of a finished task
\* pops the entry of its user
CleanupDoneCallback(k) ==
    /\ k \in 1..Len(ctask)
    /\ ctask[k].pc = "finished"
    /\ ctask' = [ctask EXCEPT ![k].pc = "done"]
    /\ cleanup_tasks' = [cleanup_tasks EXCEPT ![ctask[k].user_id] = 0]
    /\ UNCHANGED overlapped
    /\ UNCHANGED <<stm_buffer, next_id, inserted, m_pc, m_args, m_attempt, m_result>>

\* the result of _cleanup_old_messages, lines 232-242
CleanupResult(deleted_count, remaining_count) ==
    [NoResult EXCEPT !.success = TRUE, !.deleted_count = deleted_count,
                     !.remaining_count = remaining_count]

\* a cleanup that already deletes at the limit
CleanupCallCountedAtLimit(c, ok) ==
    /\ m_pc[c] = "count"
    /\ LET count == CountRows(m_args[c].user_id) IN
           IF ok /\ count >= stm_limit
               THEN /\ m_pc' = [m_pc EXCEPT ![c] = "delete"]
                    /\ m_args' = [m_args EXCEPT ![c] =
                                      [@ EXCEPT !.count = count,
                                                !.excess = count - stm_limit]]
                    /\ UNCHANGED m_result
               ELSE /\ m_pc' = [m_pc EXCEPT ![c] = "idle"]
                    /\ m_args' = [m_args EXCEPT ![c] = NoArgs]
                    /\ m_result' = [m_result EXCEPT ![c] =
                                        IF ok THEN CleanupResult(0, count)
                                              ELSE NoResult]
    /\ UNCHANGED <<stm_buffer, next_id, inserted, cleanup_tasks, ctask,
                   m_attempt, overlapped>>

\* a cleanup that deletes the excess only
CleanupCallDeletedExcessOnly(c, ok) ==
    /\ m_pc[c] = "delete"
    /\ stm_buffer' = IF ok THEN DeleteOldest(m_args[c].user_id, m_args[c].excess)
                           ELSE stm_buffer
    /\ m_result' = [m_result EXCEPT ![c] =
                        IF ok THEN CleanupResult(m_args[c].excess, stm_limit)
                              ELSE NoResult]
    /\ m_pc' = [m_pc EXCEPT ![c] = "idle"]
    /\ m_args' = [m_args EXCEPT ![c] = NoArgs]
    /\ UNCHANGED <<next_id, inserted, cleanup_tasks, ctask, m_attempt, overlapped>>

\* a cleanup that reports the rows it deleted and the rows that are left
CleanupCallDeletedReportsRows(c, ok) ==
    /\ m_pc[c] = "delete"
    /\ stm_buffer' = IF ok THEN DeleteOldest(m_args[c].user_id,
                                             m_args[c].excess + cleanup_batch_size)
                           ELSE stm_buffer
    /\ m_result' = [m_result EXCEPT ![c] =
                        IF ok THEN CleanupResult(Len(stm_buffer) - Len(stm_buffer'),
                                                 CountRows(m_args[c].user_id)
                                                   - (Len(stm_buffer) - Len(stm_buffer')))
                              ELSE NoResult]
    /\ m_pc' = [m_pc EXCEPT ![c] = "idle"]
    /\ m_args' = [m_args EXCEPT ![c] = NoArgs]
    /\ UNCHANGED <<next_id, inserted, cleanup_tasks, ctask, m_attempt, overlapped>>

\* handle_message dispatching cleanup_old_messages, lines 62-63, and
\* _cleanup_old_messages, lines 206-213: the call runs up to the await of
\* the COUNT
CleanupCall(c, u) ==
    /\ m_pc[c] = "idle"
    /\ m_pc' = [m_pc EXCEPT ![c] = "count"]
    /\ m_args' = [m_args EXCEPT ![c] =
                      [NoArgs EXCEPT !.op = "cleanup_old_messages", !.user_id = u]]
    /\ m_attempt' = [m_attempt EXCEPT ![c] = 0]
    /\ m_result' = [m_result EXCEPT ![c] = NoResult]
    /\ UNCHANGED <<stm_buffer, next_id, inserted, cleanup_tasks, ctask, overlapped>>

\* _cleanup_old_messages, lines 211-217 and 238-246, called through
\* handle_message: the COUNT returned or raised; above the limit the DELETE
\* is awaited, else the call returns
CleanupCallCounted(c, ok) ==
    /\ m_pc[c] = "count"
    /\ LET count == CountRows(m_args[c].user_id) IN
           IF ok /\ count > stm_limit
               THEN /\ m_pc' = [m_pc EXCEPT ![c] = "delete"]
                    /\ m_args' = [m_args EXCEPT ![c] =
                                      [@ EXCEPT !.count = count,
                                                !.excess = count - stm_limit]]
                    /\ UNCHANGED m_result
               ELSE /\ m_pc' = [m_pc EXCEPT ![c] = "idle"]
                    /\ m_args' = [m_args EXCEPT ![c] = NoArgs]
                    /\ m_result' = [m_result EXCEPT ![c] =
                                        IF ok THEN CleanupResult(0, count)
                                              ELSE NoResult]
    /\ UNCHANGED <<stm_buffer, next_id, inserted, cleanup_tasks, ctask,
                   m_attempt, overlapped>>

\* _cleanup_old_messages, lines 218-236 and 244-246, called through
\* handle_message: the DELETE returned or raised, and the call returns
CleanupCallDeleted(c, ok) ==
    /\ m_pc[c] = "delete"
    /\ stm_buffer' = IF ok THEN DeleteOldest(m_args[c].user_id,
                                             m_args[c].excess + cleanup_batch_size)
                           ELSE stm_buffer
    /\ m_result' = [m_result EXCEPT ![c] =
                        IF ok THEN CleanupResult(m_args[c].excess, stm_limit)
                              ELSE NoResult]
    /\ m_pc' = [m_pc EXCEPT ![c] = "idle"]
    /\ m_args' = [m_args EXCEPT ![c] = NoArgs]
    /\ UNCHANGED <<next_id, inserted, cleanup_tasks, ctask, m_attempt, overlapped>>

MemNext ==
    \/ (\E c \in Callers, u \in Users, content \in Contents :
            /\ next_id + StoresInFlight <= MaxRows
            /\ StoreCall(c, "store_user_message", u, content, 0))
           /\ UNCHANGED <<aux_vars, es_vars, coord_vars>>
    \/ (\E c \in Callers, u \in Users, content \in Contents :
            /\ next_id + StoresInFlight <= MaxRows
            /\ StoreCall(c, "store_bot_response", u, content, 0))
           /\ UNCHANGED <<aux_vars, es_vars, coord_vars>>
    \/ (\E c \in Callers : StoreUserInserted(c)) /\ UNCHANGED <<aux_vars, es_vars, coord_vars>>
    \/ (\E c \in Callers : StoreUserInsertFailed(c)) /\ UNCHANGED <<aux_vars, es_vars, coord_vars>>
    \/ (\E c \in Callers, ok \in BOOLEAN : StoreUserChecked(c, ok)) /\ UNCHANGED <<aux_vars, es_vars, coord_vars>>
    \/ (\E c \in Callers, ok \in BOOLEAN : StoreBotFinished(c, ok)) /\ UNCHANGED <<aux_vars, es_vars, coord_vars>>
    \/ (\E c \in Callers, u \in Users : ContextCall(c, u, stm_limit, 0))
           /\ UNCHANGED <<aux_vars, es_vars, coord_vars>>
    \/ (\E c \in Callers, ok \in BOOLEAN : ContextFetched(c, ok)) /\ UNCHANGED <<aux_vars, es_vars, coord_vars>>
    \/ (\E k \in 1..Len(ctask), ok \in BOOLEAN : CleanupCounted(k, ok)) /\ UNCHANGED <<aux_vars, es_vars, coord_vars>>
    \/ (\E k \in 1..Len(ctask), ok \in BOOLEAN : CleanupDeleted(k, ok)) /\ UNCHANGED <<aux_vars, es_vars, coord_vars>>
    \/ (\E k \in 1..Len(ctask) : CleanupDoneCallback(k)) /\ UNCHANGED <<aux_vars, es_vars, coord_vars>>

\* the memory actor serving store_user_message and cleanup_old_messages
\* calls, with the cleanup tasks that the stores start; a cleanup does not
\* read the content of a row
CleanupNext ==
    \/ (\E c \in Callers, u \in Users, content \in 1..NumCleanupContents :
            /\ next_id + StoresInFlight <= MaxCleanupRows
            /\ StoreCall(c, "store_user_message", u, content, 0))
           /\ UNCHANGED <<aux_vars, es_vars, coord_vars>>
    \/ (\E c \in Callers : StoreUserInserted(c)) /\ UNCHANGED <<aux_vars, es_vars, coord_vars>>
    \/ (\E c \in Callers : StoreUserInsertFailed(c))
           /\ UNCHANGED <<aux_vars, es_vars, coord_vars>>
    \/ (\E c \in Callers, ok \in BOOLEAN : StoreUserChecked(c, ok))
           /\ UNCHANGED <<aux_vars, es_vars, coord_vars>>
    \/ (\E k \in 1..Len(ctask), ok \in BOOLEAN : CleanupCounted(k, ok))
           /\ UNCHANGED <<aux_vars, es_vars, coord_vars>>
    \/ (\E k \in 1..Len(ctask), ok \in BOOLEAN : CleanupDeleted(k, ok))
           /\ UNCHANGED <<aux_vars, es_vars, coord_vars>>
    \/ (\E k \in 1..Len(ctask) : CleanupDoneCallback(k))
           /\ UNCHANGED <<aux_vars, es_vars, coord_vars>>
    \/ (\E c \in Callers, u \in Users : CleanupCall(c, u))
           /\ UNCHANGED <<aux_vars, es_vars, coord_vars>>
    \/ (\E c \in Callers, ok \in BOOLEAN : CleanupCallCounted(c, ok))
           /\ UNCHANGED <<aux_vars, es_vars, coord_vars>>
    \/ (\E c \in Callers, ok \in BOOLEAN : CleanupCallDeleted(c, ok))
           /\ UNCHANGED <<aux_vars, es_vars, coord_vars>>

\* the memory actor serving store_bot_response and get_conversation_context
\* calls with any limit
ContextNext ==
    \/ (\E c \in Callers, u \in Users, content \in 1..NumContextContents :
            /\ next_id + StoresInFlight <= MaxRows
            /\ StoreCall(c, "store_bot_response", u, content, 0))
           /\ UNCHANGED <<aux_vars, es_vars, coord_vars>>
    \/ (\E c \in Callers, ok \in BOOLEAN : StoreBotFinished(c, ok))
           /\ UNCHANGED <<aux_vars, es_vars, coord_vars>>
    \/ (\E c \in Callers, u \in Users, limit \in 1..MaxLimit :
            ContextCall(c, u, limit, 0))
           /\ UNCHANGED <<aux_vars, es_vars, coord_vars>>
    \/ (\E c \in Callers, ok \in BOOLEAN : ContextFetched(c, ok))
           /\ UNCHANGED <<aux_vars, es_vars, coord_vars>>

\* asyncio.wait_for expired, lines 221-224: the awaited call of the memory
\* actor is cancelled at its await; an INSERT in flight has been applied by
\* the database or not; a store call in _check_and_cleanup is cancelled at
\* the COUNT or, the COUNT having returned, at the release of a connection
\* (the exits of the async with blocks of lines 255 and 88), after the
\* cleanup task of lines 262-270 was created; that task is not cancelled
\* with the call (orphan)
CancelCall(c) ==
    /\ m_pc[c] # "idle"
    /\ \E landed \in BOOLEAN :
           LET u == m_args[c].user_id
               role == IF m_args[c].op = "store_user_message" THEN "user"
                                                              ELSE "assistant"
               row == NewRow(u, role, m_args[c].content)
           IN  IF m_pc[c] = "insert" /\ landed
                   THEN /\ stm_buffer' = Append(stm_buffer, row)
                        /\ inserted' = [inserted EXCEPT ![u] =
                                            Append(@, [row |-> row, req |-> m_args[c].req])]
                        /\ next_id' = next_id + 1
                   ELSE UNCHANGED <<stm_buffer, inserted, next_id>>
    /\ \E started \in BOOLEAN :
           LET u == m_args[c].user_id IN
               IF m_pc[c] = "check" /\ started /\ CountRows(u) > stm_limit
                   THEN /\ ctask' = Append(ctask, [user_id |-> u, pc |-> "count",
                                                   excess |-> 0, orphan |-> TRUE])
                        /\ cleanup_tasks' = [cleanup_tasks EXCEPT ![u] = Len(ctask) + 1]
                   ELSE UNCHANGED <<cleanup_tasks, ctask>>
    /\ m_pc' = [m_pc EXCEPT ![c] = "idle"]
    /\ m_args' = [m_args EXCEPT ![c] = NoArgs]
    /\ m_attempt' = [m_attempt EXCEPT ![c] = 0]
    /\ m_result' = [m_result EXCEPT ![c] = NoResult]
    /\ UNCHANGED overlapped

(***************************************************************************)
(* UserSessionActor.  Call i of handle_user_message uses caller i of the   *)
(* memory actor.  Of the event store the coordinator sees that save_event  *)
(* takes the event and returns, or never returns (SaveBlocks): the events  *)
(* a call handed over are kept, in order, in flow[i].events.               *)
(***************************************************************************)
Sessions == 1..NumSessions

Texts == 1..NumTexts

FallbackText == 0       \* the fixed reply of line 190
NoText == 0 - 1         \* no text yet

\* an event that is marked successful whatever the outcome
EventMarkedSuccessful(type, kind, success, u) ==
    [event_type |-> type, kind |-> kind, success |-> TRUE, user_id |-> u]

\* an event handed to EventStore.save_event
Event(type, kind, success, u) ==
    [event_type |-> type, kind |-> kind, success |-> success, user_id |-> u]

NoFlow ==
    [pc |-> "idle", call |-> "none", attempt |-> 0, coordination_type |-> "request",
     user_id |-> 0, user_message |-> NoText, response_text |-> NoText,
     result |-> NoText, trace |-> <<>>, events |-> <<>>, req |-> 0,
     blocked |-> FALSE]

\* positions at which a call awaits EventStore.save_event
SavePositions ==
    {"save_user_event", "coord_save", "save_bot_event", "flow_complete_save",
     "flow_error_save"}

At(i, pc) == flow[i].pc = pc /\ ~flow[i].blocked

CoordInit ==
    /\ coordination_metrics =
           [total_messages |-> 0, successful_flows |-> 0, failed_flows |-> 0,
            actor_timeouts |-> 0, avg_response_time |-> <<>>]
    /\ flow = [i \in Callers |-> NoFlow]
    /\ tally = [text |-> 0, fallback |-> 0, timeout_events |-> 0]
    /\ faults = 0

\* a call that is not counted in total_messages
HandleUserMessageUncounted(i, m, u) ==
    /\ At(i, "idle")
    /\ coordination_metrics.total_messages < MaxMessages
    /\ flow' = [flow EXCEPT ![i] =
           [NoFlow EXCEPT !.pc = "save_user_event", !.user_id = u,
                          !.user_message = m,
                          !.req = coordination_metrics.total_messages + 1]]
    /\ UNCHANGED <<coordination_metrics, tally>>

\* handle_user_message, lines 81-93: total_messages is counted, the
\* UserMessageEvent is built (its validator raises on a text that is too
\* long, which enters the handler of line 177) and save_event is awaited
HandleUserMessage(i, m, u) ==
    /\ At(i, "idle")
    /\ coordination_metrics.total_messages < MaxMessages
    /\ LET raises == ContentLen(m) > user_message_max_text_length IN
           /\ coordination_metrics' =
                  [coordination_metrics EXCEPT
                       !.total_messages = @ + 1,
                       !.failed_flows = IF raises THEN @ + 1 ELSE @]
           /\ flow' = [flow EXCEPT ![i] =
                  [NoFlow EXCEPT
                       !.pc = IF raises THEN "flow_error_save" ELSE "save_user_event",
                       !.user_id = u,
                       !.user_message = m,
                       !.req = coordination_metrics.total_messages + 1,
                       !.trace = IF raises THEN <<"error">> ELSE <<>>]]
    /\ UNCHANGED tally

\* handle_user_message, lines 93-103: save_event(user_event) returned;
\* _coordinate_actor_call begins for store_user_message
UserEventSaved(i) ==
    /\ At(i, "save_user_event")
    /\ flow' = [flow EXCEPT ![i] =
           [@ EXCEPT !.pc = "actor_call",
                     !.call = "store_user_message",
                     !.attempt = 0,
                     !.events = Append(@, Event("user_message", "", TRUE,
                                                flow[i].user_id)),
                     !.trace = Append(@, "save_user_event")]]
    /\ UNCHANGED <<coordination_metrics, tally>>

\* _coordinate_actor_call, lines 208-224: an attempt builds its coordination
\* event and calls the operation of the memory actor under wait_for
ActorInvoke(i) ==
    /\ At(i, "actor_call")
    /\ LET f == flow[i] IN
           IF f.call = "get_conversation_context"
               THEN ContextCall(i, f.user_id, context_request_limit, f.req)
               ELSE StoreCall(i, f.call, f.user_id,
                              IF f.call = "store_user_message" THEN f.user_message
                                                                ELSE f.response_text,
                              f.req)
    /\ flow' = [flow EXCEPT ![i] =
           [@ EXCEPT !.pc = "actor_wait",
                     !.coordination_type = "request",
                     !.trace = Append(@, flow[i].call)]]
    /\ UNCHANGED <<coordination_metrics, tally>>

\* _coordinate_actor_call, lines 236-244 and 251-258: the operation called
\* raises by itself, asyncio.TimeoutError or another error (the test double
\* of tests/test_user_session_actor.py, line 91)
ActorRaises(i) ==
    /\ At(i, "actor_call")
    /\ \E kind \in {"timeout", "error"} :
           /\ flow' = [flow EXCEPT ![i] =
                  [@ EXCEPT !.pc = "coord_save",
                            !.coordination_type = kind,
                            !.trace = @ \o <<flow[i].call, kind>>]]
           /\ coordination_metrics' =
                  [coordination_metrics EXCEPT
                       !.actor_timeouts = IF kind = "timeout" THEN @ + 1 ELSE @]
    /\ UNCHANGED tally

\* _coordinate_actor_call, lines 221-232: the operation returned; its result
\* is not inspected; the event becomes a "response" and is saved
ActorReturned(i) ==
    /\ At(i, "actor_wait")
    /\ m_pc[i] = "idle"
    /\ flow' = [flow EXCEPT ![i] =
           [@ EXCEPT !.pc = "coord_save",
                     !.coordination_type = "response",
                     !.trace = IF m_result[i].success THEN @
                                                      ELSE Append(@, "failed")]]
    /\ UNCHANGED <<coordination_metrics, tally>>

\* ActorTimedOut without the increment of actor_timeouts
ActorTimedOutUncounted(i) ==
    /\ At(i, "actor_wait")
    /\ CancelCall(i)
    /\ flow' = [flow EXCEPT ![i] =
           [@ EXCEPT !.pc = "coord_save",
                     !.coordination_type = "timeout",
                     !.trace = Append(@, "timeout")]]
    /\ UNCHANGED <<coordination_metrics, tally>>

\* _coordinate_actor_call, lines 236-244: wait_for expired while the
\* operation was running
ActorTimedOut(i) ==
    /\ At(i, "actor_wait")
    /\ CancelCall(i)
    /\ coordination_metrics' =
           [coordination_metrics EXCEPT !.actor_timeouts = @ + 1]
    /\ flow' = [flow EXCEPT ![i] =
           [@ EXCEPT !.pc = "coord_save",
                     !.coordination_type = "timeout",
                     !.trace = Append(@, "timeout")]]
    /\ UNCHANGED tally

\* a window of response times that removes its newest sample
WindowOfOldest(samples) ==
    IF Len(samples) > response_time_window
        THEN SubSeq(samples, 1, Len(samples) - 1)
        ELSE samples

\* handle_user_message, lines 160-162: the list of response times after an
\* append, its first sample removed when it holds more than the window; a
\* sample is written as the number of the message it was measured for
Window(samples) ==
    IF Len(samples) > response_time_window THEN Tail(samples) ELSE samples

\* _coordinate_actor_call, lines 232-234, 244-249 and 258-263, and the code
\* of handle_user_message that follows the call: save_event(coord_event)
\* returned.  After a response the pipeline goes on (lines 105-131 after
\* store_user_message and get_conversation_context, lines 157-173 after
\* store_bot_response); after a timeout or an error the attempt is repeated
\* after a sleep, or the last one re-raises into the handler of line 177
CoordEventSaved(i) ==
    /\ At(i, "coord_save")
    /\ LET f == flow[i]
           ev == Event("actor_coordination", f.coordination_type,
                       f.coordination_type = "response", f.user_id)
           saved == [f EXCEPT !.events = Append(@, ev)]
       IN  IF f.coordination_type = "response"
               THEN IF f.call = "store_user_message"
                        THEN /\ flow' = [flow EXCEPT ![i] =
                                    [saved EXCEPT !.pc = "actor_call",
                                                  !.call = "get_conversation_context",
                                                  !.attempt = 0]]
                             /\ UNCHANGED coordination_metrics
                    ELSE IF f.call = "get_conversation_context"
                        THEN /\ flow' = [flow EXCEPT ![i] =
                                    [saved EXCEPT !.pc = "gen_wait",
                                                  !.call = "none",
                                                  !.attempt = 0,
                                                  !.trace = Append(@, "generation")]]
                             /\ UNCHANGED coordination_metrics
                        ELSE /\ flow' = [flow EXCEPT ![i] =
                                    [saved EXCEPT !.pc = "flow_complete_save",
                                                  !.call = "none",
                                                  !.attempt = 0,
                                                  !.trace = Append(@, "success_metrics")]]
                             /\ coordination_metrics' =
                                    [coordination_metrics EXCEPT
                                         !.successful_flows = @ + 1,
                                         !.avg_response_time =
                                             Window(Append(@, f.req))]
               ELSE IF f.attempt < memory_attempts - 1
                        THEN /\ flow' = [flow EXCEPT ![i] =
                                    [saved EXCEPT !.pc = "retry_sleep"]]
                             /\ UNCHANGED coordination_metrics
                        ELSE /\ flow' = [flow EXCEPT ![i] =
                                    [saved EXCEPT !.pc = "flow_error_save",
                                                  !.call = "none",
                                                  !.attempt = 0]]
                             /\ coordination_metrics' =
                                    [coordination_metrics EXCEPT !.failed_flows = @ + 1]
    /\ tally' = [tally EXCEPT !.timeout_events =
                      IF flow[i].coordination_type = "timeout" THEN @ + 1 ELSE @]

\* _coordinate_actor_call, lines 247 and 261: the sleep between two attempts
\* is over and the loop of line 208 goes to its next attempt
RetryWake(i) ==
    /\ At(i, "retry_sleep")
    /\ flow' = [flow EXCEPT ![i] =
           [@ EXCEPT !.pc = "actor_call", !.attempt = @ + 1]]
    /\ UNCHANGED <<coordination_metrics, tally>>

\* handle_user_message, lines 122-145: the generation service returned r;
\* the BotResponseEvent is built (its validator raises on a reply that is too
\* long) and save_event is awaited
GenerationReturned(i, r) ==
    /\ At(i, "gen_wait")
    /\ LET raises == ContentLen(r) > bot_response_max_text_length IN
           /\ flow' = [flow EXCEPT ![i] =
                  [@ EXCEPT !.pc = IF raises THEN "flow_error_save"
                                             ELSE "save_bot_event",
                            !.response_text = r,
                            !.trace = IF raises THEN Append(@, "error") ELSE @]]
           /\ coordination_metrics' =
                  [coordination_metrics EXCEPT
                       !.failed_flows = IF raises THEN @ + 1 ELSE @]
    /\ UNCHANGED tally

\* a failed generation call that is invoked once more
GenerationFailedRetried(i) ==
    /\ At(i, "gen_wait")
    /\ flow' = [flow EXCEPT ![i] =
           [@ EXCEPT !.trace = @ \o <<"error", "generation">>]]
    /\ UNCHANGED <<coordination_metrics, tally>>

\* GenerationFailed without the increment of failed_flows
GenerationFailedUncounted(i) ==
    /\ At(i, "gen_wait")
    /\ flow' = [flow EXCEPT ![i] =
           [@ EXCEPT !.pc = "flow_error_save", !.trace = Append(@, "error")]]
    /\ UNCHANGED <<coordination_metrics, tally>>

\* _coordinate_service_call, lines 282-287: the generation call timed out or
\* raised; the error is re-raised into the handler of line 177
GenerationFailed(i) ==
    /\ At(i, "gen_wait")
    /\ flow' = [flow EXCEPT ![i] =
           [@ EXCEPT !.pc = "flow_error_save", !.trace = Append(@, "error")]]
    /\ coordination_metrics' =
           [coordination_metrics EXCEPT !.failed_flows = @ + 1]
    /\ UNCHANGED tally

\* BotEventSaved that goes on to the success metrics without storing the
\* reply in the memory actor
BotEventSavedSkipsStore(i) ==
    /\ At(i, "save_bot_event")
    /\ flow' = [flow EXCEPT ![i] =
           [@ EXCEPT !.pc = "flow_complete_save",
                     !.events = Append(@, Event("bot_response", "", TRUE,
                                                flow[i].user_id)),
                     !.trace = @ \o <<"save_bot_event", "success_metrics">>]]
    /\ coordination_metrics' =
           [coordination_metrics EXCEPT !.successful_flows = @ + 1]
    /\ UNCHANGED tally

\* handle_user_message, lines 145-155: save_event(bot_event) returned;
\* _coordinate_actor_call begins for store_bot_response
BotEventSaved(i) ==
    /\ At(i, "save_bot_event")
    /\ flow' = [flow EXCEPT ![i] =
           [@ EXCEPT !.pc = "actor_call",
                     !.call = "store_bot_response",
                     !.attempt = 0,
                     !.events = Append(@, Event("bot_response", "", TRUE,
                                                flow[i].user_id)),
                     !.trace = Append(@, "save_bot_event")]]
    /\ UNCHANGED <<coordination_metrics, tally>>

\* FlowCompleteSaved that returns the text of the user instead of the reply
FlowCompleteSavedEchoes(i) ==
    /\ At(i, "flow_complete_save")
    /\ flow' = [flow EXCEPT ![i] =
           [@ EXCEPT !.pc = "idle",
                     !.result = flow[i].user_message,
                     !.events = Append(@, Event("system_event", "user_flow_complete",
                                                TRUE, flow[i].user_id)),
                     !.trace = Append(@, "user_flow_complete")]]
    /\ tally' = [tally EXCEPT !.text = @ + 1]
    /\ UNCHANGED coordination_metrics

\* handle_user_message, lines 165-175: the user_flow_complete event is saved
\* and the generated reply is returned
FlowCompleteSaved(i) ==
    /\ At(i, "flow_complete_save")
    /\ flow' = [flow EXCEPT ![i] =
           [@ EXCEPT !.pc = "idle",
                     !.result = flow[i].response_text,
                     !.events = Append(@, Event("system_event", "user_flow_complete",
                                                TRUE, flow[i].user_id)),
                     !.trace = Append(@, "user_flow_complete")]]
    /\ tally' = [tally EXCEPT !.text = @ + 1]
    /\ UNCHANGED coordination_metrics

\* handle_user_message, lines 182-190: the user_flow_error event is saved and
\* the fallback reply is returned
FlowErrorSaved(i) ==
    /\ At(i, "flow_error_save")
    /\ flow' = [flow EXCEPT ![i] =
           [@ EXCEPT !.pc = "idle",
                     !.result = FallbackText,
                     !.events = Append(@, Event("system_event", "user_flow_error",
                                                TRUE, flow[i].user_id))]]
    /\ tally' = [tally EXCEPT !.fallback = @ + 1]
    /\ UNCHANGED coordination_metrics

\* EventStore.save_event, lines 37-42, and _flush_buffer, lines 80-84: the
\* awaited save_event never returns, because it waits for a lock whose owner
\* is stuck in the error handler of a failed flush
SaveBlocks(i) ==
    /\ flow[i].pc \in SavePositions
    /\ ~flow[i].blocked
    /\ flow' = [flow EXCEPT ![i] = [@ EXCEPT !.blocked = TRUE]]
    /\ UNCHANGED <<coordination_metrics, tally>>

\* a collaborator may fail while the bound on failures is not reached
Outcomes == IF faults < MaxFaults THEN BOOLEAN ELSE {TRUE}

Fault(ok) == faults' = IF ok THEN faults ELSE faults + 1

Inject == faults < MaxFaults /\ faults' = faults + 1

CoordNext ==
    \/ (\E i \in Sessions, m \in Texts, u \in Users : HandleUserMessage(i, m, u))
           /\ UNCHANGED <<aux_vars, es_vars, mem_vars, faults>>
    \/ (\E i \in Sessions : UserEventSaved(i))
           /\ UNCHANGED <<aux_vars, es_vars, mem_vars, faults>>
    \/ (\E i \in Sessions : ActorInvoke(i)) /\ UNCHANGED <<aux_vars, es_vars, faults>>
    \/ (\E i \in Sessions : ActorRaises(i)) /\ Inject
           /\ UNCHANGED <<aux_vars, es_vars, mem_vars>>
    \/ (\E i \in Sessions : ActorReturned(i))
           /\ UNCHANGED <<aux_vars, es_vars, mem_vars, faults>>
    \/ (\E i \in Sessions : ActorTimedOut(i)) /\ Inject /\ UNCHANGED <<aux_vars, es_vars>>
    \/ (\E i \in Sessions : CoordEventSaved(i))
           /\ UNCHANGED <<aux_vars, es_vars, mem_vars, faults>>
    \/ (\E i \in Sessions : RetryWake(i))
           /\ UNCHANGED <<aux_vars, es_vars, mem_vars, faults>>
    \/ (\E i \in Sessions, r \in Texts : GenerationReturned(i, r))
           /\ UNCHANGED <<aux_vars, es_vars, mem_vars, faults>>
    \/ (\E i \in Sessions : GenerationFailed(i)) /\ Inject
           /\ UNCHANGED <<aux_vars, es_vars, mem_vars>>
    \/ (\E i \in Sessions : BotEventSaved(i))
           /\ UNCHANGED <<aux_vars, es_vars, mem_vars, faults>>
    \/ (\E i \in Sessions : FlowCompleteSaved(i))
           /\ UNCHANGED <<aux_vars, es_vars, mem_vars, faults>>
    \/ (\E i \in Sessions : FlowErrorSaved(i))
           /\ UNCHANGED <<aux_vars, es_vars, mem_vars, faults>>
    \/ (\E i \in Sessions : SaveBlocks(i)) /\ Inject
           /\ UNCHANGED <<aux_vars, es_vars, mem_vars>>
    \/ (\E c \in Callers : StoreUserInserted(c))
           /\ UNCHANGED <<aux_vars, es_vars, coord_vars>>
    \/ (\E c \in Callers : StoreUserInsertFailed(c)) /\ Inject
           /\ UNCHANGED <<aux_vars, es_vars, session_vars>>
    \/ (\E c \in Callers, ok \in Outcomes : StoreUserChecked(c, ok) /\ Fault(ok))
           /\ UNCHANGED <<aux_vars, es_vars, session_vars>>
    \/ (\E c \in Callers, ok \in Outcomes : StoreBotFinished(c, ok) /\ Fault(ok))
           /\ UNCHANGED <<aux_vars, es_vars, session_vars>>
    \/ (\E c \in Callers, ok \in Outcomes : ContextFetched(c, ok) /\ Fault(ok))
           /\ UNCHANGED <<aux_vars, es_vars, session_vars>>
    \/ (\E k \in 1..Len(ctask), ok \in Outcomes : CleanupCounted(k, ok) /\ Fault(ok))
           /\ UNCHANGED <<aux_vars, es_vars, session_vars>>
    \/ (\E k \in 1..Len(ctask), ok \in Outcomes : CleanupDeleted(k, ok) /\ Fault(ok))
           /\ UNCHANGED <<aux_vars, es_vars, session_vars>>
    \/ (\E k \in 1..Len(ctask) : CleanupDoneCallback(k))
           /\ UNCHANGED <<aux_vars, es_vars, coord_vars>>

\* two calls of handle_user_message that may run concurrently, each with
\* its own caller of the memory actor; the operations of the memory actor
\* succeed and the generation call may fail
ConcurrentNext ==
    \/ (\E i \in Callers, m \in 1..NumConcurrentTexts, u \in 1..NumConcurrentUsers :
            HandleUserMessage(i, m, u))
           /\ UNCHANGED <<aux_vars, es_vars, mem_vars, faults>>
    \/ (\E i \in Callers : UserEventSaved(i))
           /\ UNCHANGED <<aux_vars, es_vars, mem_vars, faults>>
    \/ (\E i \in Callers : ActorInvoke(i)) /\ UNCHANGED <<aux_vars, es_vars, faults>>
    \/ (\E i \in Callers : ActorReturned(i))
           /\ UNCHANGED <<aux_vars, es_vars, mem_vars, faults>>
    \/ (\E i \in Callers : CoordEventSaved(i))
           /\ UNCHANGED <<aux_vars, es_vars, mem_vars, faults>>
    \/ (\E i \in Callers, r \in 1..NumConcurrentTexts : GenerationReturned(i, r))
           /\ UNCHANGED <<aux_vars, es_vars, mem_vars, faults>>
    \/ (\E i \in Callers : GenerationFailed(i)) /\ Inject
           /\ UNCHANGED <<aux_vars, es_vars, mem_vars>>
    \/ (\E i \in Callers : BotEventSaved(i))
           /\ UNCHANGED <<aux_vars, es_vars, mem_vars, faults>>
    \/ (\E i \in Callers : FlowCompleteSaved(i))
           /\ UNCHANGED <<aux_vars, es_vars, mem_vars, faults>>
    \/ (\E i \in Callers : FlowErrorSaved(i))
           /\ UNCHANGED <<aux_vars, es_vars, mem_vars, faults>>
    \/ (\E c \in Callers : StoreUserInserted(c))
           /\ UNCHANGED <<aux_vars, es_vars, coord_vars>>
    \/ (\E c \in Callers : StoreUserChecked(c, TRUE))
           /\ UNCHANGED <<aux_vars, es_vars, coord_vars>>
    \/ (\E c \in Callers : StoreBotFinished(c, TRUE))
           /\ UNCHANGED <<aux_vars, es_vars, coord_vars>>
    \/ (\E c \in Callers : ContextFetched(c, TRUE))
           /\ UNCHANGED <<aux_vars, es_vars, coord_vars>>
    \/ (\E k \in 1..Len(ctask) : CleanupCounted(k, TRUE))
           /\ UNCHANGED <<aux_vars, es_vars, coord_vars>>
    \/ (\E k \in 1..Len(ctask) : CleanupDeleted(k, TRUE))
           /\ UNCHANGED <<aux_vars, es_vars, coord_vars>>
    \/ (\E k \in 1..Len(ctask) : CleanupDoneCallback(k))
           /\ UNCHANGED <<aux_vars, es_vars, coord_vars>>

(***************************************************************************)
(* BaseActor life cycle of the memory actor: initialize and shutdown       *)
(***************************************************************************)
\* cleanup tasks whose coroutine has not returned
Unfinished == {k \in 1..Len(ctask) : ctask[k].pc \in {"count", "delete"}}

LifeInit ==
    /\ is_running = FALSE
    /\ shut_pc = "idle"
    /\ gathered = {}
    /\ cancelled_tasks = {}

\* BaseActor.initialize, base_actor.py lines 42-51
ActorInitialize ==
    /\ shut_pc = "idle"
    /\ ~is_running
    /\ is_running' = TRUE
    /\ UNCHANGED <<shut_pc, gathered, cancelled_tasks>>

\* BaseActor.shutdown, base_actor.py lines 53-63, and _graceful_shutdown,
\* lines 306-310: with entries in _cleanup_tasks the caller awaits the gather
\* of the tasks registered at this moment, else the actor is stopped at once
ActorShutdown ==
    /\ shut_pc = "idle"
    /\ is_running
    /\ LET registered == {cleanup_tasks[u] : u \in Users} \ {0} IN
           IF registered # {}
               THEN /\ gathered' = registered
                    /\ shut_pc' = "gather"
                    /\ UNCHANGED is_running
               ELSE /\ is_running' = FALSE
                    /\ UNCHANGED <<shut_pc, gathered>>
    /\ UNCHANGED cancelled_tasks

\* base_actor.py lines 63-69: every gathered task has finished or failed; the
\* actor is marked stopped
GatherDone ==
    /\ shut_pc = "gather"
    /\ gathered \cap Unfinished = {}
    /\ is_running' = FALSE
    /\ shut_pc' = "idle"
    /\ gathered' = {}
    /\ UNCHANGED cancelled_tasks

\* base_actor.py lines 62-69: wait_for expires after graceful_shutdown_timeout;
\* it cancels _graceful_shutdown, whose gather cancels every task it awaits.
\* CancelledError is not an Exception and ends _cleanup_old_messages at its
\* await; a DELETE in flight has been applied or not.  The actor is then
\* marked stopped.
ShutdownTimeout ==
    /\ shut_pc = "gather"
    /\ gathered \cap Unfinished # {}
    /\ LET hit == gathered \cap Unfinished IN
           /\ cancelled_tasks' = cancelled_tasks \cup hit
           /\ ctask' = [k \in 1..Len(ctask) |->
                            IF k \in hit
                                THEN [ctask[k] EXCEPT !.pc = "finished", !.excess = 0]
                                ELSE ctask[k]]
           /\ \E landed \in SUBSET {k \in hit : ctask[k].pc = "delete"} :
                  stm_buffer' =
                      SelectSeq(stm_buffer,
                                LAMBDA r : \A k \in landed :
                                    r.id \notin OldestIds(ctask[k].user_id,
                                                          ctask[k].excess
                                                            + cleanup_batch_size))
    /\ is_running' = FALSE
    /\ shut_pc' = "idle"
    /\ gathered' = {}
    /\ UNCHANGED <<next_id, inserted, cleanup_tasks, m_pc, m_args, m_attempt,
                   m_result, overlapped>>

\* the memory actor storing user messages, with its cleanup tasks, while it
\* is initialized and shut down
LifeNext ==
    \/ (\E c \in Callers, u \in Users, content \in 1..NumCleanupContents :
            /\ next_id + StoresInFlight <= MaxRows
            /\ StoreCall(c, "store_user_message", u, content, 0))
           /\ UNCHANGED <<aux_vars, es_vars, coord_vars>>
    \/ (\E c \in Callers : StoreUserInserted(c))
           /\ UNCHANGED <<aux_vars, es_vars, coord_vars>>
    \/ (\E c \in Callers : StoreUserInsertFailed(c))
           /\ UNCHANGED <<aux_vars, es_vars, coord_vars>>
    \/ (\E c \in Callers, ok \in BOOLEAN : StoreUserChecked(c, ok))
           /\ UNCHANGED <<aux_vars, es_vars, coord_vars>>
    \/ (\E k \in 1..Len(ctask), ok \in BOOLEAN : CleanupCounted(k, ok))
           /\ UNCHANGED <<aux_vars, es_vars, coord_vars>>
    \/ (\E k \in 1..Len(ctask), ok \in BOOLEAN : CleanupDeleted(k, ok))
           /\ UNCHANGED <<aux_vars, es_vars, coord_vars>>
    \/ (\E k \in 1..Len(ctask) : CleanupDoneCallback(k))
           /\ UNCHANGED <<aux_vars, es_vars, coord_vars>>
    \/ ActorInitialize
           /\ UNCHANGED <<es_vars, mem_vars, coord_vars, msg_vars, row_vars, meta_vars>>
    \/ ActorShutdown
           /\ UNCHANGED <<es_vars, mem_vars, coord_vars, msg_vars, row_vars, meta_vars>>
    \/ GatherDone
           /\ UNCHANGED <<es_vars, mem_vars, coord_vars, msg_vars, row_vars, meta_vars>>
    \/ ShutdownTimeout
           /\ UNCHANGED <<es_vars, coord_vars, msg_vars, row_vars, meta_vars>>

(***************************************************************************)
(* message_types: create_memory_message                                    *)
(***************************************************************************)
\* MEMORY_MESSAGE_TYPES, lines 24-45: the required fields of every type
MEMORY_MESSAGE_TYPES ==
    [store_user_message |-> {"user_id", "content"},
     store_bot_response |-> {"user_id", "content"},
     get_conversation_context |-> {"user_id"},
     cleanup_old_messages |-> {"user_id"},
     get_user_stats |-> {"user_id"}]

\* the message types a caller may pass, one of them unknown
GivenTypes == DOMAIN MEMORY_MESSAGE_TYPES \cup {"unknown_type"}

\* the keys a caller may put in data, and the data dictionaries
DataFields == {"user_id", "content", "limit"}

GivenData ==
    UNION {[keys -> 1..NumFieldValues] : keys \in SUBSET DataFields}

NoData == [f \in {} |-> 0]

\* the outcome of a call that raised ValueError
Raised == [raised |-> TRUE, type |-> "", data |-> NoData, sender |-> ""]

\* a create_memory_message that raises only when every required field is
\* missing
create_memory_message_any_field(message_type, data, sender) ==
    IF message_type \notin DOMAIN MEMORY_MESSAGE_TYPES
        THEN Raised
        ELSE IF MEMORY_MESSAGE_TYPES[message_type] \cap DOMAIN data = {}
                 THEN Raised
                 ELSE [raised |-> FALSE, type |-> message_type, data |-> data,
                       sender |-> sender]

\* create_memory_message, lines 48-73
create_memory_message(message_type, data, sender) ==
    IF message_type \notin DOMAIN MEMORY_MESSAGE_TYPES
        THEN Raised
        ELSE LET required_fields == MEMORY_MESSAGE_TYPES[message_type]
                 missing_fields == {field \in required_fields :
                                        field \notin DOMAIN data}
             IN  IF missing_fields # {}
                     THEN Raised
                     ELSE [raised |-> FALSE, type |-> message_type,
                           data |-> data, sender |-> sender]

MsgInit ==
    memory_message = [called |-> FALSE, message_type |-> "", data |-> NoData,
                      result |-> Raised]

\* a call create_memory_message(message_type, data) with the default sender
CreateMemoryMessage(message_type, data) ==
    memory_message' = [called |-> TRUE, message_type |-> message_type,
                       data |-> data,
                       result |-> create_memory_message(message_type, data,
                                                        "system")]

MsgNext ==
    (\E message_type \in GivenTypes, data \in GivenData :
         CreateMemoryMessage(message_type, data))
        /\ UNCHANGED <<es_vars, mem_vars, coord_vars, row_vars, life_vars, meta_vars>>

(***************************************************************************)
(* EventStore, storage format: what _flush_buffer writes for an event and  *)
(* what get_events_by_stream reads back.  The buffering is left out here:  *)
(* an event is saved and flushed in one step.                              *)
(***************************************************************************)
NoUserId == 0 - 1                   \* user_id is None
EventUsers == 0..NumEventUsers

\* stream ids: None, the empty string, "user_<id>" and
\* "system_coordination_<source>_<target>"
NoStreamId == <<>>
EmptyString == <<"">>
UserStream(u) == <<"user", u>>
CoordinationStream(source, target) == <<"system_coordination", source, target>>

\* values of the data dictionary of an event, as Python values
PyValues ==
    {[kind |-> "dict", v |-> 0], [kind |-> "int", v |-> 1],
     [kind |-> "list", v |-> 1], [kind |-> "tuple", v |-> 1]}

\* json.dumps: lists and tuples are both written as JSON arrays
json_dumps(value) ==
    IF value.kind \in {"list", "tuple"}
        THEN [kind |-> "array", v |-> value.v]
        ELSE IF value.kind = "int" THEN [kind |-> "number", v |-> value.v]
                                   ELSE [kind |-> "object", v |-> value.v]

\* json.loads: a JSON array is read as a list
json_loads(text) ==
    IF text.kind = "array"
        THEN [kind |-> "list", v |-> text.v]
        ELSE IF text.kind = "number" THEN [kind |-> "int", v |-> text.v]
                                     ELSE [kind |-> "dict", v |-> text.v]

\* BaseEvent.__init__, base_event.py lines 29-34
BaseEvent(event_type, user_id, data, stream_id) ==
    [event_type |-> event_type, user_id |-> user_id, data |-> data,
     stream_id |-> IF stream_id = NoStreamId /\ user_id # NoUserId
                       THEN UserStream(user_id)
                       ELSE stream_id]

\* ActorCoordinationEvent.__init__, conversation_events.py lines 88-92
ActorCoordinationEvent(source_actor, target_actor, user_id) ==
    LET e == BaseEvent("actor_coordination", user_id,
                       [kind |-> "dict", v |-> 0], NoStreamId)
    IN  IF e.user_id = NoUserId
            THEN [e EXCEPT !.stream_id =
                               CoordinationStream(source_actor, target_actor)]
            ELSE e

\* the events handed to save_event
GivenEvents ==
    {BaseEvent("user_message", u, d, NoStreamId) :
         u \in EventUsers \cup {NoUserId}, d \in PyValues}
    \cup {ActorCoordinationEvent("user_session", "memory", u) :
              u \in EventUsers \cup {NoUserId}}

\* a flush that writes user_id and stream_id as they are
event_row_verbatim(event_dict) ==
    [event_type |-> event_dict.event_type,
     user_id |-> event_dict.user_id,
     data |-> json_dumps(event_dict.data),
     stream_id |-> event_dict.stream_id]

\* _flush_buffer, lines 61-70: the row written for an event; "x or y" is y
\* when x is None, 0 or the empty string
event_row(event_dict) ==
    [event_type |-> event_dict.event_type,
     user_id |-> IF event_dict.user_id \in {NoUserId, 0}
                     THEN 0 ELSE event_dict.user_id,
     data |-> json_dumps(event_dict.data),
     stream_id |-> IF event_dict.stream_id \in {NoStreamId, EmptyString}
                       THEN EmptyString ELSE event_dict.stream_id]

\* get_events_by_stream, lines 103-124: WHERE stream_id = $1 matches no row
\* when $1 is NULL; the first limit rows are returned with data decoded
get_events_by_stream(stream_id, limit) ==
    LET rows == IF stream_id = NoStreamId
                    THEN <<>>
                    ELSE SelectSeq(event_rows, LAMBDA row : row.stream_id = stream_id)
        first == SubSeq(rows, 1, IF Len(rows) < limit THEN Len(rows) ELSE limit)
    IN  [i \in 1..Len(first) |-> [first[i] EXCEPT !.data = json_loads(@)]]

RowInit ==
    /\ saved_events = <<>>
    /\ event_rows = <<>>
    /\ fetched = [called |-> FALSE, stream_id |-> NoStreamId, events |-> <<>>,
                  saved |-> 0]

\* save_event, lines 30-48, followed by _flush_buffer, lines 50-78, the
\* insert succeeding
SaveAndFlush(event) ==
    /\ Len(event_rows) < MaxEventRows
    /\ saved_events' = Append(saved_events, event)
    /\ event_rows' = Append(event_rows, event_row(event))
    /\ UNCHANGED fetched

\* get_events_by_stream with the default limit
GetEventsByStream(stream_id) ==
    /\ fetched' = [called |-> TRUE, stream_id |-> stream_id,
                   events |-> get_events_by_stream(stream_id, stream_fetch_limit),
                   saved |-> Len(saved_events)]
    /\ UNCHANGED <<saved_events, event_rows>>

RowNext ==
    \/ (\E event \in GivenEvents : SaveAndFlush(event))
           /\ UNCHANGED <<es_vars, mem_vars, coord_vars, msg_vars, life_vars, meta_vars>>
    \/ (\E event \in GivenEvents : GetEventsByStream(event.stream_id))
           /\ UNCHANGED <<es_vars, mem_vars, coord_vars, msg_vars, life_vars, meta_vars>>

(***************************************************************************)
(* BaseEvent: the metadata of an event.  Keys are single characters and    *)
(* values are strings, given by their lengths.                             *)
(***************************************************************************)
MetaKeys == 1..NumMetaKeys
MetaValues == 1..MaxValueLen

\* the metadata dictionaries handed to the constructor
GivenMetadata == UNION {[K -> MetaValues] : K \in SUBSET MetaKeys}

RECURSIVE EntriesLen(_, _)
\* the characters json.dumps writes for the entries of keys K: "k": "v...v"
EntriesLen(m, K) ==
    IF K = {}
        THEN 0
        ELSE LET k == CHOOSE x \in K : TRUE IN
                 (7 + m[k]) + EntriesLen(m, K \ {k})

\* len(json.dumps(m)): braces, the entries, and ", " between entries
JsonLen(m) ==
    IF DOMAIN m = {}
        THEN 2
        ELSE 2 + EntriesLen(m, DOMAIN m) + 2 * (Cardinality(DOMAIN m) - 1)

\* BaseEvent.validate_metadata_size: TRUE when it raises ValueError
validate_metadata_size_raises(v) ==
    IF event_validation_enabled
        THEN JsonLen(v) > event_metadata_max_size
        ELSE FALSE

\* the calls after which an event object exists
EventExists == meta_outcome \in {"constructed", "added", "add_raised"}

MetaInit ==
    /\ metadata = <<>>
    /\ meta_outcome = "none"

\* BaseEvent(..., metadata=m): the validator runs on the given dictionary
ConstructEvent(m) ==
    IF validate_metadata_size_raises(m)
        THEN /\ metadata' = <<>>
             /\ meta_outcome' = "construct_raised"
        ELSE /\ metadata' = m
             /\ meta_outcome' = "constructed"

\* add_metadata(key, value): the entry is written, then the size is checked
AddMetadata(key, value) ==
    /\ EventExists
    /\ metadata' = [k \in DOMAIN metadata \union {key} |->
                        IF k = key THEN value ELSE metadata[k]]
    /\ meta_outcome' = IF validate_metadata_size_raises(metadata')
                           THEN "add_raised"
                           ELSE "added"

MetaNext ==
    \/ (\E m \in GivenMetadata : ConstructEvent(m))
           /\ UNCHANGED <<es_vars, mem_vars, coord_vars, msg_vars, row_vars, life_vars>>
    \/ (\E key \in MetaKeys, value \in MetaValues : AddMetadata(key, value))
           /\ UNCHANGED <<es_vars, mem_vars, coord_vars, msg_vars, row_vars, life_vars>>

\* the components right after construction
Init ==
    ESInit /\ MemInit /\ CoordInit /\ MsgInit /\ RowInit /\ LifeInit /\ MetaInit

SpecES == Init /\ [][ESNext]_vars

SpecESOk == Init /\ [][ESOkNext]_vars

SpecMem == Init /\ [][MemNext]_vars

SpecCoord == Init /\ [][CoordNext]_vars

SpecConcurrent == Init /\ [][ConcurrentNext]_vars

SpecCleanup == Init /\ [][CleanupNext]_vars

SpecContext == Init /\ [][ContextNext]_vars

SpecMsg == Init /\ [][MsgNext]_vars

SpecRows == Init /\ [][RowNext]_vars

SpecLife == Init /\ [][LifeNext]_vars

SpecMeta == Init /\ [][MetaNext]_vars

ESTypeOK ==
    /\ buffer_lock \in ESTasks \cup {NoTask}
    /\ \A t \in ESTasks :
           es_pc[t] \in {"none", "idle", "sleep", "lock", "insert", "rebuffer",
                         "done", "cancelled"}
    /\ next_event \in 1..(MaxEvents + 1)

(***************************************************************************)
(* EventStore claims                                                       *)
(***************************************************************************)
\* the task waits in the handler of _flush_buffer for the lock it owns itself
SelfBlocked(t) ==
    es_pc[t] = "rebuffer" /\ buffer_lock = t /\ InSeq(t, lock_waiters)

\* the event is still held by a call of _flush_buffer that can finish
InLiveFlush(e) ==
    \E t \in ESTasks : InSeq(e, events_to_save[t]) /\ ~SelfBlocked(t)

\* C1: no event accepted by save_event is dropped when a batched insert
\* fails: every accepted event is in the buffer, or persisted, or held by a
\* flush that can still persist it or put it back at the front of the buffer.
C1_NoAcceptedEventDropped ==
    \A i \in 1..Len(accepted) :
        \/ InSeq(accepted[i], event_buffer)
        \/ InSeq(accepted[i], events_table)
        \/ InLiveFlush(accepted[i])

\* C2: no save_event call blocks forever: a saver whose flush failed its
\* batched insert is never left waiting for a lock that cannot be released.
C2_SaveEventNeverBlocksForever ==
    \A s \in Savers : ~SelfBlocked(s)

\* C10: when shutdown returns and no insert has failed, the flush task has
\* been cancelled, the buffer is empty and every accepted event is persisted
\* (or is held by a flush that is still running).
C10_ShutdownPersistsAll ==
    [][(es_pc[ShutId] # "done" /\ es_pc'[ShutId] = "done" /\ ~insert_failed')
         => /\ es_pc'[FlusherId] \in {"sleep", "lock", "insert", "rebuffer"}
                   => cancel_requested'
            /\ event_buffer' = <<>>
            /\ \A i \in 1..Len(accepted') :
                   \/ InSeq(accepted'[i], events_table')
                   \/ \E t \in ESTasks : InSeq(accepted'[i], events_to_save'[t])
      ]_vars

(***************************************************************************)
(* MemoryActor claims                                                      *)
(***************************************************************************)
\* cleanup tasks of the user whose _cleanup_old_messages has not returned
RunningCleanups(u) ==
    {k \in 1..Len(ctask) : ctask[k].user_id = u /\ ctask[k].pc \in {"count", "delete"}}

\* C3: for every user at most one cleanup task is running at any time.
C3_AtMostOneCleanupPerUser ==
    \A u \in Users : Cardinality(RunningCleanups(u)) <= 1

\* the rows ever inserted for the user, oldest first
InsertedRows(u) == [k \in 1..Len(inserted[u]) |-> inserted[u][k].row]

LastN(s, n) == SubSeq(s, IF Len(s) > n THEN Len(s) - n + 1 ELSE 1, Len(s))

RECURSIVE SumLen(_)
SumLen(rows) ==
    IF rows = <<>> THEN 0 ELSE ContentLen(Head(rows).content) + SumLen(Tail(rows))

\* more than stm_limit user turns were stored for u, one call after the
\* other, every cleanup they triggered has finished, no call for u is
\* running, and the stm_limit most recent turns fit the context length
StoredBeyondLimit(u) ==
    /\ Len(inserted[u]) > stm_limit
    /\ \A i \in 1..Len(inserted[u]) : InsertedRows(u)[i].role = "user"
    /\ u \notin overlapped
    /\ cleanup_tasks[u] = 0
    /\ \A k \in 1..Len(ctask) : ctask[k].user_id = u => ctask[k].pc = "done"
    /\ \A d \in Callers : m_args[d].user_id = u => m_args[d].op = "get_conversation_context"
    /\ SumLen(LastN(InsertedRows(u), stm_limit)) <= context_max_length

\* C4: after more than stm_limit consecutive successful store_user_turn
\* calls for a user, their cleanups completed, get_context with the default
\* limit returns exactly the stm_limit most recent turns of the user, in
\* chronological order.
C4_ContextIsMostRecentTurns ==
    [][\A c \in Callers :
           (/\ m_pc[c] = "fetch"
            /\ m_pc'[c] = "idle"
            /\ m_result'[c].success
            /\ m_args[c].limit = stm_limit
            /\ StoredBeyondLimit(m_args[c].user_id))
           => /\ m_result'[c].count <= stm_limit
              /\ m_result'[c].messages = LastN(InsertedRows(m_args[c].user_id), stm_limit)
      ]_vars

(***************************************************************************)
(* UserSessionActor claims                                                 *)
(***************************************************************************)
\* the call of session i has returned; its locals are kept until the next call
Returned(i) == flow[i].pc = "idle" /\ flow[i].req # 0

Count(seq, x) == Cardinality({k \in 1..Len(seq) : seq[k] = x})

\* no attempt of the call timed out or raised and no memory operation
\* reported a failure
FailureFree(i) ==
    \A x \in {"timeout", "error", "failed"} : ~InSeq(x, flow[i].trace)

\* an error reached the handler of line 177: the last thing the pipeline
\* did was a timeout or an error
Aborted(i) ==
    /\ flow[i].trace # <<>>
    /\ flow[i].trace[Len(flow[i].trace)] \in {"timeout", "error"}

FlowEvents(i, kind) ==
    Cardinality({k \in 1..Len(flow[i].events) :
                     /\ flow[i].events[k].event_type = "system_event"
                     /\ flow[i].events[k].kind = kind})

InPosition(pc) == Cardinality({i \in Sessions : flow[i].pc = pc})

\* C5: handle_user_message never raises: a call whose pipeline raised returns
\* the fallback text after saving exactly one user_flow_error event (and no
\* user_flow_complete event), and failed_flows counts exactly the calls that
\* entered the error handler.
C5_ErrorsBecomeFallback ==
    /\ \A i \in Sessions :
           (Returned(i) /\ Aborted(i))
               => /\ flow[i].result = FallbackText
                  /\ FlowEvents(i, "user_flow_error") = 1
                  /\ FlowEvents(i, "user_flow_complete") = 0
    /\ \A i \in Sessions :
           Returned(i) => \/ flow[i].result = FallbackText
                          \/ flow[i].result \in Texts
    /\ coordination_metrics.failed_flows =
           tally.fallback + InPosition("flow_error_save")

\* a call returned the fallback after its generation call failed
C5_FallbackAfterGenerationFailed ==
    \E i \in Sessions :
        /\ Returned(i)
        /\ Aborted(i)
        /\ InSeq("generation", flow[i].trace)
        /\ flow[i].result = FallbackText
        /\ coordination_metrics.failed_flows >= 1

\* the memory actor reported that the insert of store_user_message failed
StoreUserFailed(i) ==
    \E k \in 1..(Len(flow[i].trace) - 1) :
        /\ flow[i].trace[k] = "store_user_message"
        /\ flow[i].trace[k + 1] = "failed"

\* C6: when the insert of store_user_message fails on every attempt, the call
\* of handle_user_message returns the fallback text.
C6_StoreFailureGivesFallback ==
    \A i \in Sessions :
        (Returned(i) /\ StoreUserFailed(i)) => flow[i].result = FallbackText

PipelineOrder ==
    <<"save_user_event", "store_user_message", "get_conversation_context",
      "generation", "save_bot_event", "store_bot_response", "success_metrics",
      "user_flow_complete">>

MemoryOps == {"store_user_message", "get_conversation_context", "store_bot_response"}

MemoryCalls(i) ==
    Cardinality({k \in 1..Len(flow[i].trace) : flow[i].trace[k] \in MemoryOps})

\* C7: on the failure-free path the steps of a call happen in the order of
\* the pipeline, a step starting only when the operation of the memory actor
\* of the step before has returned, and a call that has returned has done all
\* the steps and invoked the memory actor exactly three times.
C7_StepsInPipelineOrder ==
    \A i \in Sessions :
        /\ FailureFree(i) =>
               /\ Len(flow[i].trace) <= Len(PipelineOrder)
               /\ flow[i].trace = SubSeq(PipelineOrder, 1, Len(flow[i].trace))
        /\ flow[i].pc # "actor_wait" => m_pc[i] = "idle"
        /\ (Returned(i) /\ FailureFree(i)) =>
               /\ flow[i].trace = PipelineOrder
               /\ MemoryCalls(i) = 3

\* a call has returned on the failure-free path
C7_FailureFreeCallReturned ==
    \E i \in Sessions :
        /\ Returned(i)
        /\ FailureFree(i)
        /\ flow[i].result \in Texts
        /\ MemoryCalls(i) = 3

\* what a call does when every attempt of store_user_message times out
NeverResolves ==
    <<"save_user_event">> \o
    [k \in 1..(2 * memory_attempts) |->
        IF k % 2 = 1 THEN "store_user_message" ELSE "timeout"]

\* C8: a coordinated call invokes its operation at most memory_attempts
\* times; actor_timeouts counts every timed-out attempt once (one timeout
\* event is saved for each); a call whose last attempt timed out returns the
\* fallback text, so a store_user_message that never resolves gives the
\* fallback text with actor_timeouts increased.
C8_BoundedAttemptsAndTimeouts ==
    /\ \A i \in Sessions : \A op \in MemoryOps :
           Count(flow[i].trace, op) <= memory_attempts
    /\ coordination_metrics.actor_timeouts =
           tally.timeout_events +
           Cardinality({i \in Sessions : /\ flow[i].pc = "coord_save"
                                         /\ flow[i].coordination_type = "timeout"})
    /\ \A i \in Sessions :
           /\ coordination_metrics.actor_timeouts >= Count(flow[i].trace, "timeout")
           /\ (Returned(i) /\ flow[i].trace # <<>>
                  /\ flow[i].trace[Len(flow[i].trace)] = "timeout")
                 => flow[i].result = FallbackText
           /\ (Returned(i) /\ flow[i].trace = NeverResolves)
                 => /\ flow[i].result = FallbackText
                    /\ coordination_metrics.actor_timeouts >= 1

\* every attempt of store_user_message timed out and the call has returned
C8_StoreNeverResolved ==
    \E i \in Sessions :
        /\ Returned(i)
        /\ flow[i].trace = NeverResolves
        /\ coordination_metrics.actor_timeouts >= memory_attempts

\* rows the memory actor inserted for user u on behalf of call req
RowsOf(u, req) ==
    LET mine == SelectSeq(inserted[u], LAMBDA e : e.req = req)
    IN  [k \in 1..Len(mine) |->
            [role |-> mine[k].row.role, content |-> mine[k].row.content]]

\* C9: a call handle_user_message(m, u) in which every step succeeded returns
\* the text of the generation service and has added exactly two turns, for
\* user u only: (user, m) and then (assistant, returned text);
\* successful_flows counts exactly the calls that reached the success metrics
\* and total_messages exactly the calls made.
C9_SuccessfulFlow ==
    /\ \A i \in Sessions :
           (Returned(i) /\ FailureFree(i))
               => /\ flow[i].result = flow[i].response_text
                  /\ flow[i].result \in Texts
                  /\ RowsOf(flow[i].user_id, flow[i].req) =
                         <<[role |-> "user", content |-> flow[i].user_message],
                           [role |-> "assistant", content |-> flow[i].result]>>
                  /\ \A v \in Users \ {flow[i].user_id} :
                         RowsOf(v, flow[i].req) = <<>>
    /\ coordination_metrics.successful_flows =
           tally.text + InPosition("flow_complete_save")
    /\ coordination_metrics.total_messages =
           tally.text + tally.fallback
           + Cardinality({i \in Sessions : flow[i].pc # "idle"})

\* a call returned a reply that differs from the text of the user
C9_ReplyReturned ==
    \E i \in Sessions :
        /\ Returned(i)
        /\ FailureFree(i)
        /\ flow[i].result \in Texts
        /\ flow[i].result # flow[i].user_message
        /\ coordination_metrics.successful_flows >= 1

(***************************************************************************)
(* EventStore claims, continued                                            *)
(***************************************************************************)
\* C11: no task holds the buffer lock while it awaits the batched insert.
C11_LockNotHeldAcrossInsert ==
    \A t \in ESTasks : ~(es_pc[t] = "insert" /\ buffer_lock = t)

\* The scheduling of the event loop: a task that can run is run, the periodic
\* flush wakes from its sleep (lines 88-89), and a batched insert that is
\* attempted again and again is not refused for ever.
ESFairness ==
    /\ WF_vars(Initialize /\ UNCHANGED <<aux_vars, mem_vars, coord_vars>>)
    /\ WF_vars(PeriodicTick /\ UNCHANGED <<aux_vars, mem_vars, coord_vars>>)
    /\ WF_vars(FlushTaskCancelled /\ UNCHANGED <<aux_vars, mem_vars, coord_vars>>)
    /\ \A s \in Savers :
           WF_vars(SaveLocked(s) /\ UNCHANGED <<aux_vars, mem_vars, coord_vars>>)
    /\ \A t \in ESTasks :
           /\ WF_vars(FlushLocked(t) /\ UNCHANGED <<aux_vars, mem_vars, coord_vars>>)
           /\ WF_vars(Rebuffer(t) /\ UNCHANGED <<aux_vars, mem_vars, coord_vars>>)
           /\ SF_vars(InsertOk(t) /\ UNCHANGED <<aux_vars, mem_vars, coord_vars>>)

SpecESLive == Init /\ [][ESNext]_vars /\ ESFairness

\* C12: while the store is not shut down, every event accepted by save_event
\* is eventually in the events table, also after a batched insert has failed.
C12_AcceptedEventuallyPersisted ==
    \A e \in 1..MaxEvents :
        InSeq(e, accepted) ~> (InSeq(e, events_table) \/ es_pc[ShutId] # "idle")

(***************************************************************************)
(* MemoryActor claims, continued: cleanup_old_messages                     *)
(***************************************************************************)
\* the rows of user u in a table, oldest first
RowsIn(table, u) == SelectSeq(table, LAMBDA r : r.user_id = u)

\* a call of cleanup_old_messages is at the given await
CleanupAt(c, pc) == m_args[c].op = "cleanup_old_messages" /\ m_pc[c] = pc

\* C13: a cleanup that counts at most stm_limit turns of its user returns at
\* once, deletes no row and leaves the stored turns unchanged, so a second
\* call in immediate succession reports 0 deleted rows.
C13_CleanupUnderLimitDeletesNothing ==
    [][\A c \in Callers :
           (/\ CleanupAt(c, "count")
            /\ m_pc'[c] # "count"
            /\ CountRows(m_args[c].user_id) <= stm_limit)
           => /\ m_pc'[c] = "idle"
              /\ stm_buffer' = stm_buffer
              /\ m_result'[c].success
                     => /\ m_result'[c].deleted_count = 0
                        /\ m_result'[c].remaining_count
                               = CountRows(m_args[c].user_id)
      ]_vars

\* a cleanup of a user with stored turns, none above the limit, has returned
\* without deleting
CleanupUnderLimitReturned ==
    \E c \in Callers :
        /\ m_pc[c] = "idle"
        /\ m_result[c].success
        /\ m_result[c].deleted_count = 0
        /\ m_result[c].remaining_count > 0
        /\ Len(stm_buffer) = next_id - 1

\* the step removes the n oldest rows of user u (all of them when fewer
\* exist) and no other row
RemovesOldest(u, n) ==
    LET rows == RowsIn(stm_buffer, u)
        k == IF n < Len(rows) THEN n ELSE Len(rows)
    IN  /\ RowsIn(stm_buffer', u) = SubSeq(rows, k + 1, Len(rows))
        /\ \A v \in Users \ {u} : RowsIn(stm_buffer', v) = RowsIn(stm_buffer, v)
        /\ Len(stm_buffer') = Len(stm_buffer) - k

\* C14: a cleanup that counted c > stm_limit turns of its user deletes exactly
\* the (c - stm_limit) + cleanup_batch_size oldest rows of that user (all of
\* them when fewer exist), keeps the user's newer rows and every row of the
\* other users.
C14_CleanupDeletesOldest ==
    [][/\ \A c \in Callers :
              (CleanupAt(c, "delete") /\ m_pc'[c] = "idle" /\ m_result'[c].success)
              => /\ m_args[c].count > stm_limit
                 /\ RemovesOldest(m_args[c].user_id,
                                  (m_args[c].count - stm_limit) + cleanup_batch_size)
       /\ \A k \in 1..Len(ctask) :
              (/\ ctask[k].pc = "delete"
               /\ ctask'[k].pc = "finished"
               /\ stm_buffer' # stm_buffer)
              => RemovesOldest(ctask[k].user_id, ctask[k].excess + cleanup_batch_size)
      ]_vars

\* a cleanup has deleted rows of one user while another user keeps a row
CleanupDeletedBesideOtherUser ==
    \E c \in Callers :
        /\ m_pc[c] = "idle"
        /\ m_result[c].success
        /\ m_result[c].deleted_count > 0
        /\ Len(stm_buffer) < next_id - 1
        /\ \E u \in Users :
               /\ Len(inserted[u]) > stm_limit
               /\ \E v \in Users \ {u} : RowsIn(stm_buffer, v) # <<>>

\* C15: a cleanup whose queries succeed reports success; having counted c
\* turns it reports deleted_count = c - stm_limit and remaining_count =
\* stm_limit when c > stm_limit, and deleted_count = 0 and remaining_count = c
\* otherwise.
C15_CleanupResult ==
    [][\A c \in Callers :
           (/\ m_args[c].op = "cleanup_old_messages"
            /\ m_pc[c] # "idle"
            /\ m_pc'[c] = "idle"
            /\ m_result'[c].success)
           => LET count == IF m_pc[c] = "count"
                               THEN CountRows(m_args[c].user_id)
                               ELSE m_args[c].count
              IN  IF count > stm_limit
                      THEN /\ m_result'[c].deleted_count = count - stm_limit
                           /\ m_result'[c].remaining_count = stm_limit
                      ELSE /\ m_result'[c].deleted_count = 0
                           /\ m_result'[c].remaining_count = count
      ]_vars

\* a cleanup above the limit has returned its result
CleanupAboveLimitReturned ==
    \E c \in Callers :
        /\ m_pc[c] = "idle"
        /\ m_result[c].success
        /\ m_result[c].deleted_count > 0
        /\ m_result[c].remaining_count = stm_limit

(***************************************************************************)
(* MemoryActor claims, continued: get_conversation_context                 *)
(***************************************************************************)
\* msgs begins with p
IsPrefix(p, msgs) == Len(p) <= Len(msgs) /\ p = SubSeq(msgs, 1, Len(p))

\* C16: a context request that succeeds returns, oldest first, the longest
\* prefix of the user's limit most recent turns whose summed content length
\* is at most context_max_length: it stops before the first turn that would
\* exceed it; count is the number of turns returned and total_length their
\* summed length.
C16_ContextIsLongestFittingPrefix ==
    [][\A c \in Callers :
           (m_pc[c] = "fetch" /\ m_pc'[c] = "idle" /\ m_result'[c].success)
           => LET recent == LastN(RowsIn(stm_buffer, m_args[c].user_id),
                                  m_args[c].limit)
                  res == m_result'[c]
              IN  /\ IsPrefix(res.messages, recent)
                  /\ res.count = Len(res.messages)
                  /\ res.total_length = SumLen(res.messages)
                  /\ res.total_length <= context_max_length
                  /\ \/ res.messages = recent
                     \/ res.total_length
                            + ContentLen(recent[res.count + 1].content)
                                > context_max_length
      ]_vars

\* a context request returned fewer turns than the user has stored: the next
\* turn of the user would have exceeded the context length
ContextStoppedAtLength ==
    \E c \in Callers :
        /\ m_pc[c] = "idle"
        /\ m_result[c].success
        /\ m_result[c].count >= 1
        /\ LET last == m_result[c].messages[m_result[c].count] IN
               \E k \in 1..Len(stm_buffer) :
                   /\ stm_buffer[k].user_id = last.user_id
                   /\ stm_buffer[k].id > last.id
                   /\ m_result[c].total_length + ContentLen(stm_buffer[k].content)
                          > context_max_length

(***************************************************************************)
(* message_types claims                                                    *)
(***************************************************************************)
\* C17: create_memory_message(type, data) raises exactly when the type is not
\* one of the five registered types or a required field of the type is not a
\* key of data; otherwise the message carries that type and that data.
C17_MessageValidation ==
    memory_message.called =>
        LET t == memory_message.message_type
            d == memory_message.data
            r == memory_message.result
            known == t \in {"store_user_message", "store_bot_response",
                            "get_conversation_context", "cleanup_old_messages",
                            "get_user_stats"}
            complete == /\ "user_id" \in DOMAIN d
                        /\ t \in {"store_user_message", "store_bot_response"}
                               => "content" \in DOMAIN d
        IN  /\ r.raised <=> ~(known /\ complete)
            /\ ~r.raised => r.type = t /\ r.data = d

\* store_user_message with only a content has been refused
StoreMessageWithoutUserRefused ==
    /\ memory_message.called
    /\ memory_message.message_type = "store_user_message"
    /\ DOMAIN memory_message.data = {"content"}
    /\ memory_message.result.raised

(***************************************************************************)
(* EventStore claims, continued: storage format                            *)
(***************************************************************************)
\* the fetched record equals the event in the four fields
SameEvent(record, event) ==
    /\ record.event_type = event.event_type
    /\ record.user_id = event.user_id
    /\ record.data = event.data
    /\ record.stream_id = event.stream_id

\* C18: for every event saved and flushed, with or without a user_id, a later
\* fetch by the stream id of the event returns a record equal to the event in
\* event_type, user_id, data and stream_id.
C18_EventRoundTrip ==
    fetched.called =>
        \A i \in 1..fetched.saved :
            saved_events[i].stream_id = fetched.stream_id
                => \E j \in 1..Len(fetched.events) :
                       SameEvent(fetched.events[j], saved_events[i])

(***************************************************************************)
(* UserSessionActor claims, continued: health_check and the latency window *)
(***************************************************************************)
\* a health_check whose success rate is taken over the finished flows
health_check_of_finished ==
    LET m == coordination_metrics
        finished == m.successful_flows + m.failed_flows
    IN  [total_messages |-> m.total_messages,
         successful_flows |-> m.successful_flows,
         failed_flows |-> m.failed_flows,
         actor_timeouts |-> m.actor_timeouts,
         success_rate |-> IF finished > 0 THEN <<m.successful_flows, finished>>
                                          ELSE <<0, 1>>]

\* health_check, lines 319-339: the coordination metrics of the snapshot;
\* the quotient a / b is written <<a, b>>, the number 0 is <<0, 1>>; the
\* average of the response times is left out
health_check ==
    LET m == coordination_metrics IN
        [total_messages |-> m.total_messages,
         successful_flows |-> m.successful_flows,
         failed_flows |-> m.failed_flows,
         actor_timeouts |-> m.actor_timeouts,
         success_rate |-> IF m.total_messages > 0
                              THEN <<m.successful_flows, m.total_messages>>
                              ELSE <<0, 1>>]

\* every call so far has returned the generated reply
AllSuccessful ==
    /\ \A i \in Sessions : flow[i].pc = "idle"
    /\ tally.fallback = 0

\* C19: health_check reports the current total_messages, successful_flows,
\* failed_flows and actor_timeouts, and a success rate of successful_flows /
\* total_messages, or 0 before any message; after k messages that all
\* succeeded it reports total k, successful k and a rate of 1.
C19_HealthCheckReportsMetrics ==
    LET h == health_check
        m == coordination_metrics
    IN  /\ h.total_messages = m.total_messages
        /\ h.successful_flows = m.successful_flows
        /\ h.failed_flows = m.failed_flows
        /\ h.actor_timeouts = m.actor_timeouts
        /\ h.total_messages = tally.text + tally.fallback
               + Cardinality({i \in Sessions : flow[i].pc # "idle"})
        /\ IF m.total_messages = 0
               THEN h.success_rate[1] = 0
               ELSE h.success_rate[1] * m.total_messages
                        = m.successful_flows * h.success_rate[2]
        /\ h.success_rate[2] > 0
        /\ AllSuccessful
               => /\ h.total_messages = tally.text
                  /\ h.successful_flows = tally.text
                  /\ tally.text > 0 => h.success_rate[1] = h.success_rate[2]

\* MaxMessages messages were handled and all of them succeeded
HealthAfterSuccessfulMessages ==
    /\ AllSuccessful
    /\ tally.text = MaxMessages
    /\ health_check.total_messages = MaxMessages
    /\ health_check.success_rate = <<MaxMessages, MaxMessages>>

\* C20: the window of response times never holds more than
\* response_time_window samples and always holds min(successful_flows,
\* response_time_window) of them; a flow that succeeds appends its sample and
\* the oldest one is removed when the window is exceeded; any other step,
\* that of a failing flow included, leaves the window unchanged.
C20_LatencyWindowBounded ==
    [][LET m == coordination_metrics
           n == coordination_metrics'
       IN  /\ Len(n.avg_response_time) <= response_time_window
           /\ Len(n.avg_response_time)
                  = Min(n.successful_flows, response_time_window)
           /\ IF n.successful_flows # m.successful_flows
                  THEN \E i \in Sessions :
                           /\ flow[i].pc = "coord_save"
                           /\ flow'[i].pc = "flow_complete_save"
                           /\ n.successful_flows = m.successful_flows + 1
                           /\ n.avg_response_time =
                                  LastN(Append(m.avg_response_time, flow[i].req),
                                        response_time_window)
                  ELSE n.avg_response_time = m.avg_response_time
      ]_vars

\* more flows have succeeded than the window holds, and the window holds the
\* sample of the latest
WindowEvictedOldest ==
    /\ coordination_metrics.successful_flows > response_time_window
    /\ Len(coordination_metrics.avg_response_time) = response_time_window
    /\ coordination_metrics.avg_response_time[response_time_window] = MaxMessages

(***************************************************************************)
(* MemoryActor claims, continued: shutdown                                 *)
(***************************************************************************)
\* C21: when shutdown marks the actor stopped, no cleanup task is still
\* running and no cleanup task has been cancelled.
C21_ShutdownWaitsForCleanups ==
    [][(is_running /\ ~is_running')
           => /\ {k \in 1..Len(ctask') : ctask'[k].pc \in {"count", "delete"}} = {}
              /\ cancelled_tasks' = {}
      ]_vars

(***************************************************************************)
(* MemoryActor claims, continued: the limit of stored turns                *)
(***************************************************************************)
\* C22: whenever a store of a user or assistant turn returns with success and
\* leaves more than stm_limit turns of its user, a cleanup task is registered
\* for that user; and a cleanup task whose DELETE succeeds leaves at most
\* stm_limit turns of its user.
C22_StoreAboveLimitTriggersCleanup ==
    [][/\ \A c \in Callers :
              (/\ m_args[c].op \in {"store_user_message", "store_bot_response"}
               /\ m_pc[c] # "idle"
               /\ m_pc'[c] = "idle"
               /\ m_result'[c].success
               /\ Len(RowsIn(stm_buffer', m_args[c].user_id)) > stm_limit)
              => cleanup_tasks'[m_args[c].user_id] # 0
       /\ \A k \in 1..Len(ctask) :
              (/\ ctask[k].pc = "delete"
               /\ ctask'[k].pc = "finished"
               /\ stm_buffer' # stm_buffer)
              => Len(RowsIn(stm_buffer', ctask[k].user_id)) <= stm_limit
      ]_vars

(***************************************************************************)
(* UserSessionActor claims, continued: the input of the generation call    *)
(***************************************************************************)
\* _format_context_for_generation, lines 289-300: one line "role: content"
\* per message, in the order given, joined by newlines
_format_context_for_generation(messages) ==
    [kind |-> "transcript",
     lines |-> [k \in 1..Len(messages) |-> <<messages[k].role, messages[k].content>>]]

\* handle_user_message, lines 118-119: the transcript of the turns that the
\* context request of call i returned
context_text(i) == _format_context_for_generation(m_result[i].messages)

\* handle_user_message, lines 121-131: the keyword arguments of the
\* generation call of call i
generation_kwargs(i) ==
    [message |-> [kind |-> "text", text |-> flow[i].user_message],
     user_id |-> [kind |-> "int", value |-> flow[i].user_id],
     use_json |-> [kind |-> "setting", name |-> "USE_JSON_MODE"],
     mode |-> [kind |-> "setting", name |-> "DEFAULT_MODE"]]

\* C23: while the generation call of a flow is awaited and the context
\* request returned turns, the call's arguments hold the user message and
\* the transcript formatted from those turns.
C23_GenerationReceivesContext ==
    \A i \in Sessions :
        (flow[i].pc = "gen_wait" /\ m_result[i].messages # <<>>)
            => LET kwargs == generation_kwargs(i) IN
                   /\ \E key \in DOMAIN kwargs :
                          /\ kwargs[key].kind = "text"
                          /\ kwargs[key].text = flow[i].user_message
                   /\ \E key \in DOMAIN kwargs :
                          /\ kwargs[key].kind = "transcript"
                          /\ kwargs[key].lines = context_text(i).lines

(***************************************************************************)
(* EventStore claims, continued: event size and the batch flush            *)
(***************************************************************************)
\* C24: an event larger than max_event_size_bytes is rejected by save_event:
\* it is never appended to the buffer, and the call that offered it never
\* returns true.
C24_OversizeEventRejected ==
    /\ \A k \in 1..Len(accepted) : EventSize(accepted[k]) <= max_event_size_bytes
    /\ \A s \in Savers :
           (cur_event[s] # 0 /\ EventSize(cur_event[s]) > max_event_size_bytes)
               => save_result[s] # "true"

\* C25: when save_event returns true, the buffer holds fewer than batch_size
\* events; and when the call flushed, the batch it took (at least batch_size
\* events, its own among them) reached the table in one insert.
C25_BatchSizeTriggersFlush ==
    [][\A s \in Savers :
           (es_pc[s] \in {"lock", "insert"} /\ es_pc'[s] = "idle"
                /\ save_result'[s] = "true")
               => /\ Len(event_buffer') < batch_size
                  /\ es_pc[s] = "insert"
                         => /\ Len(events_to_save[s]) >= batch_size
                            /\ InSeq(cur_event[s], events_to_save[s])
                            /\ events_table' = events_table \o events_to_save[s]
      ]_vars

\* a save_event has returned true after the flush it ran at the batch size
SaveReturnedAfterBatchFlush ==
    \E s \in Savers :
        /\ es_pc[s] = "idle" /\ save_result[s] = "true"
        /\ ~insert_failed
        /\ next_event = batch_size + 1
        /\ Len(events_table) = batch_size
        /\ events_table[batch_size] = cur_event[s]
        /\ event_buffer = <<>>

(***************************************************************************)
(* BaseEvent claims                                                        *)
(***************************************************************************)
\* C26: the metadata of an existing event serializes to at most
\* event_metadata_max_size characters, after construction and after every
\* add_metadata call; a constructor call with larger metadata fails.
C26_MetadataWithinCeiling ==
    /\ EventExists => JsonLen(metadata) <= event_metadata_max_size
    /\ meta_outcome = "construct_raised" => metadata = <<>>

(***************************************************************************)
(* UserSessionActor claims, continued: coordination events and the         *)
(* generation call                                                         *)
(***************************************************************************)
\* the outcomes of the attempts of call i on the memory actor, in order: an
\* attempt that timed out or raised is followed by that word in the trace
AttemptKinds(i) ==
    LET t == flow[i].trace
        at == SelectSeq([k \in 1..Len(t) |-> k], LAMBDA k : t[k] \in MemoryOps)
    IN  [n \in 1..Len(at) |->
            IF at[n] < Len(t) /\ t[at[n] + 1] \in {"timeout", "error"}
                THEN t[at[n] + 1]
                ELSE "response"]

\* the coordination events call i has saved, in order
CoordinationEvents(i) ==
    SelectSeq(flow[i].events, LAMBDA e : e.event_type = "actor_coordination")

GenerationRaised(i) ==
    /\ flow[i].response_text = NoText
    /\ \E k \in 1..(Len(flow[i].trace) - 1) :
           /\ flow[i].trace[k] = "generation"
           /\ flow[i].trace[k + 1] = "error"

\* C28: the generation operation is invoked at most once by a call of
\* handle_user_message; when it times out or raises, nothing else is invoked
\* and the call, once returned, has returned the fallback text.
C28_GenerationInvokedOnce ==
    \A i \in Sessions :
        /\ Count(flow[i].trace, "generation") <= 1
        /\ GenerationRaised(i)
               => /\ flow[i].trace[Len(flow[i].trace)] = "error"
                  /\ flow[i].pc \in {"flow_error_save", "idle"}
                  /\ Returned(i) => flow[i].result = FallbackText

\* a call returned the fallback text after its only generation call failed
FallbackAfterSingleGeneration ==
    \E i \in Sessions :
        /\ Returned(i)
        /\ GenerationRaised(i)
        /\ Count(flow[i].trace, "generation") = 1
        /\ flow[i].result = FallbackText

(***************************************************************************)
(* MemoryActor claims, continued: the two store operations                 *)
(***************************************************************************)
\* the step inserts exactly one row, for user u with the given role and content
InsertsOneRow(u, role, content) ==
    /\ Len(stm_buffer') = Len(stm_buffer) + 1
    /\ SubSeq(stm_buffer', 1, Len(stm_buffer)) = stm_buffer
    /\ LET row == stm_buffer'[Len(stm_buffer')] IN
           row.user_id = u /\ row.role = role /\ row.content = content

C30_StoreBotSingleInsertNoCleanup ==
    [][\A c \in Callers :
           m_args[c].op = "store_bot_response" =>
               /\ m_pc[c] = "insert"
               /\ m_attempt[c] = 0
               /\ <<m_pc'[c], m_attempt'[c], m_args'[c]>> # <<m_pc[c], m_attempt[c], m_args[c]>>
                      => /\ m_pc'[c] = "idle"
                         /\ IF m_result'[c].success
                                THEN InsertsOneRow(m_args[c].user_id, "assistant",
                                                   m_args[c].content)
                                ELSE stm_buffer' = stm_buffer
                         /\ cleanup_tasks' = cleanup_tasks
                         /\ ctask' = ctask
      ]_vars

\* a stored reply has taken a user above stm_limit and every call has
\* returned without a cleanup task having been created
ReplyStoredAboveLimitWithoutCleanup ==
    /\ \A c \in Callers : m_pc[c] = "idle"
    /\ ctask = <<>>
    /\ stm_buffer # <<>>
    /\ LET row == stm_buffer[Len(stm_buffer)] IN
           /\ row.role = "assistant"
           /\ Len(RowsIn(stm_buffer, row.user_id)) = stm_limit + 1

(***************************************************************************)
(* MemoryActor claims, continued: the map of cleanup tasks                 *)
(***************************************************************************)
\* C31: the map of cleanup tasks has an entry for a user while a cleanup
\* task of that user is running; an entry names a task whose done callback
\* has not run; and when the callbacks of all tasks have run the map is
\* empty.
C31_MapTracksOutstandingCleanups ==
    /\ \A k \in 1..Len(ctask) :
           ctask[k].pc \in {"count", "delete"}
               => cleanup_tasks[ctask[k].user_id] # 0
    /\ \A u \in Users :
           cleanup_tasks[u] # 0 => ctask[cleanup_tasks[u]].pc # "done"
    /\ (\A k \in 1..Len(ctask) : ctask[k].pc = "done")
           => \A u \in Users : cleanup_tasks[u] = 0

(***************************************************************************)
(* UserSessionActor claims, continued: timeouts and failed steps           *)
(***************************************************************************)
\* C32: when the coordinator observes the timeout of an attempt, the call of
\* the memory actor it awaited is no longer running; rows are inserted only
\* by calls that are running; and a cleanup task created by a call that
\* timed out deletes no row.
C32_TimedOutCallHasNoLaterEffect ==
    [][/\ \A i \in Sessions :
              (flow[i].pc = "actor_wait" /\ flow'[i].pc = "coord_save"
                   /\ flow'[i].coordination_type = "timeout")
                  => m_pc'[i] = "idle"
       /\ Len(stm_buffer') > Len(stm_buffer)
              => \E c \in Callers : m_pc[c] = "insert" /\ m_pc'[c] # "insert"
       /\ \A k \in 1..Len(ctask) :
              (ctask[k].orphan /\ ctask[k].pc = "delete" /\ ctask'[k].pc # "delete")
                  => stm_buffer' = stm_buffer
      ]_vars

\* C33: after a store_user_message that failed (the memory actor reported
\* the failure of its insert) the call does no context fetch, no generation
\* call, saves no bot_response event and stores no reply; after a failed
\* generation call it saves no bot_response event and stores no reply; and
\* such a call never reaches the success metrics.
C33_NoStepAfterFailedStep ==
    \A i \in Sessions :
        /\ StoreUserFailed(i)
               => \A step \in {"get_conversation_context", "generation",
                               "save_bot_event", "store_bot_response",
                               "success_metrics"} :
                      ~InSeq(step, flow[i].trace)
        /\ GenerationRaised(i)
               => \A step \in {"save_bot_event", "store_bot_response",
                               "success_metrics"} :
                      ~InSeq(step, flow[i].trace)

\* C34: a call whose user_message event could not be built (the text is
\* longer than the event allows) does not enter the error handler at that
\* step, and once returned it has invoked store_user_message.
C34_UserEventIsBestEffort ==
    \A i \in Sessions :
        (flow[i].req # 0
             /\ ContentLen(flow[i].user_message) > user_message_max_text_length)
            => /\ flow[i].trace # <<"error">>
               /\ Returned(i) => InSeq("store_user_message", flow[i].trace)

(***************************************************************************)
(* Event claims: the streams and the types of the events the coordinator   *)
(* saves                                                                   *)
(***************************************************************************)
\* the stream_id of an event the coordinator hands to save_event: the
\* coordination events are built with source user_session, target memory
\* and the user_id of the message (user_session_actor.py lines 211-216), the
\* other events with their user_id and no stream_id
saved_stream_id(ev) ==
    IF ev.event_type = "actor_coordination"
        THEN ActorCoordinationEvent("user_session", "memory", ev.user_id).stream_id
        ELSE BaseEvent(ev.event_type, ev.user_id, [kind |-> "dict", v |-> 0],
                       NoStreamId).stream_id

\* C35: every coordination event the coordinator saved is in the stream
\* named after the two actors, and every other event it saved for a user is
\* in the stream of that user.
C35_CoordinationEventsInSyntheticStream ==
    \A i \in Sessions : \A n \in 1..Len(flow[i].events) :
        LET ev == flow[i].events[n] IN
            IF ev.event_type = "actor_coordination"
                THEN saved_stream_id(ev) = CoordinationStream("user_session", "memory")
                ELSE saved_stream_id(ev) = UserStream(ev.user_id)

\* EVENT_CONFIG["event_types"], config/events.py lines 14-29: the allow-list
event_types == {"user_message", "bot_response", "system_event"}

\* v.startswith("system."), for the event types of the model
startswith_system(v) == v \in {"system.custom"}

\* BaseEvent.validate_event_type, lines 36-44: TRUE when it raises for v.
\* The validator runs on a value given to the constructor, not on the
\* default of a subclass (the Literal defaults of conversation_events.py)
validate_event_type_raises(v) ==
    IF event_validation_enabled
        THEN v \notin event_types /\ ~startswith_system(v)
        ELSE FALSE

\* C36: every event the coordinator handed to the event store has an
\* event_type of the allow-list or one that begins with "system.".
C36_SavedEventTypesAllowed ==
    \A i \in Sessions : \A n \in 1..Len(flow[i].events) :
        ~validate_event_type_raises(flow[i].events[n].event_type)

(***************************************************************************)
(* UserSessionActor claims, continued: the counters under concurrent calls *)
(***************************************************************************)
\* the calls of handle_user_message whose position is one of pcs
CallsAt(pcs) == Cardinality({i \in Callers : flow[i].pc \in pcs})

\* the calls that have counted their outcome and await the save of their
\* user_flow_complete or user_flow_error event
CountedPositions == {"flow_complete_save", "flow_error_save"}

\* C37 as stated: total_messages is the sum of successful_flows, failed_flows
\* and the number of calls that have not returned.
C37_CountersSumWithCallsInFlight ==
    coordination_metrics.total_messages =
        coordination_metrics.successful_flows + coordination_metrics.failed_flows
        + (Cardinality(Callers) - CallsAt({"idle"}))

\* C37 amended: total_messages is the sum of successful_flows, failed_flows
\* and the number of calls that have not yet counted their outcome; a call
\* counts exactly one outcome, successful_flows when it goes on to return the
\* reply and failed_flows when it goes on to return the fallback text; and
\* no counter decreases.
C37_CountersConsistent ==
    [][/\ coordination_metrics'.total_messages =
              coordination_metrics'.successful_flows
              + coordination_metrics'.failed_flows
              + (Cardinality(Callers) - CallsAt({"idle"} \cup CountedPositions)')
       /\ coordination_metrics'.successful_flows =
              tally'.text + CallsAt({"flow_complete_save"})'
       /\ coordination_metrics'.failed_flows =
              tally'.fallback + CallsAt({"flow_error_save"})'
       /\ \A counter \in {"total_messages", "successful_flows", "failed_flows",
                          "actor_timeouts"} :
              coordination_metrics'[counter] >= coordination_metrics[counter]
      ]_vars

\* two calls are running at once: one has counted its success and awaits the
\* save of its last event, the other has not yet counted an outcome
ConcurrentCallsOneCounted ==
    \E i, j \in Callers :
        /\ flow[i].pc = "flow_complete_save"
        /\ flow[j].pc \notin {"idle"} \cup CountedPositions
        /\ coordination_metrics.total_messages = 2
        /\ coordination_metrics.successful_flows = 1

\* C38: the rows the memory actor inserted on behalf of one call of
\* handle_user_message hold at most one user turn and at most one assistant
\* turn.
C38_OneTurnPerRolePerCall ==
    \A u \in Users : \A req \in 1..MaxMessages : \A role \in {"user", "assistant"} :
        Cardinality({k \in 1..Len(RowsOf(u, req)) : RowsOf(u, req)[k].role = role}) <= 1

(***************************************************************************)
(* EventStore claims, continued: accepted events with successful inserts   *)
(***************************************************************************)
\* the batches of the flushes in progress, in the order of the tasks
BatchesInFlight ==
    LET RECURSIVE Join(_)
        Join(t) == IF t > Len(events_to_save) THEN <<>>
                   ELSE events_to_save[t] \o Join(t + 1)
    IN  Join(1)

\* C39 as stated: every accepted event is in the buffer or in the table.
C39_AcceptedInBufferOrPersisted ==
    \A k \in 1..Len(accepted) :
        InSeq(accepted[k], event_buffer) \/ InSeq(accepted[k], events_table)

\* C39 amended: the accepted events are, in the order of their acceptance,
\* the rows of the table, then the batch of the flush in progress (at most
\* one flush is in progress), then the buffer; so every accepted event is
\* in exactly one of the three, once, and the table is in acceptance order.
C39_AcceptedPersistedOnceInOrder ==
    /\ accepted = events_table \o BatchesInFlight \o event_buffer
    /\ Cardinality({t \in ESTasks : events_to_save[t] # <<>>}) <= 1
    /\ \A k, n \in 1..Len(accepted) : k # n => accepted[k] # accepted[n]

\* the events of a batch-size flush are in the table and the periodic flush
\* is inserting a later batch
FlushedByBothKindsInOrder ==
    /\ Len(events_table) >= batch_size
    /\ es_pc[FlusherId] = "insert"
    /\ events_to_save[FlusherId] # <<>>

(***************************************************************************)
(* MemoryActor claims, continued: the counts a cleanup reports             *)
(***************************************************************************)
\* while call c runs its cleanup nothing else writes: every other caller is
\* idle, no cleanup task is running, and the rows of the user are those the
\* call counted
NoConcurrentWrites(c) ==
    /\ \A d \in Callers \ {c} : m_pc[d] = "idle"
    /\ \A k \in 1..Len(ctask) : ctask[k].pc \in {"finished", "done"}
    /\ m_pc[c] = "delete" => m_args[c].count = CountRows(m_args[c].user_id)

\* C40: a cleanup that returns success, no other write running, reports as
\* deleted_count the number of rows its step deleted and as remaining_count
\* the number of rows of its user in the table right after the call.
C40_CleanupCountsMatchStorage ==
    [][\A c \in Callers :
           (/\ m_args[c].op = "cleanup_old_messages"
            /\ m_pc[c] # "idle"
            /\ m_pc'[c] = "idle"
            /\ m_result'[c].success
            /\ NoConcurrentWrites(c))
           => /\ m_result'[c].deleted_count = Len(stm_buffer) - Len(stm_buffer')
              /\ m_result'[c].remaining_count
                     = Len(RowsIn(stm_buffer', m_args[c].user_id))
      ]_vars

====
